---- MODULE Spec2Model ----
\* Call registry of the voice agent (src/main/telephony_manager.py): the
\* TelephonyManager's active_calls dictionary, the CallMetadata objects it
\* refers to, and the asynchronous operations on them, interleaved at their
\* await points as the asyncio scheduler interleaves them. After the registry:
\* the delivery of notifications (redirect-preserving POST and retry policy,
\* function_callings/tools_appointments.py and end_call_report.py) and the
\* transcript aggregator (end_call_report.py).
EXTENDS Integers, Sequences, FiniteSets, Bags, TLC

\* ------------------------------------------------------------------ bounds
\* Operations called in one run.
MaxTasks == 3
\* ... and in the bare configuration (inbound calls only, no notification
\* URL), where an operation has fewer steps: enough for a call to be made and
\* ended twice.
MaxBareTasks == 4
\* The clock runs from 0 to MaxClock, in units of 1/UnitsPerSec second.
MaxClock == 2
UnitsPerSec == 3
\* Redirects in a row that a receiver answers to a client following them by
\* itself.
MaxChain == 3
\* ------------------------------------------------------------- value sets
None == "None"
NoTime == -1

INBOUND == "inbound"
OUTBOUND == "outbound"

INITIATED == "initiated"
RINGING == "ringing"
CONNECTED == "connected"
COMPLETED == "completed"
FAILED == "failed"
BUSY == "busy"
NO_ANSWER == "no_answer"

CallStatus == {INITIATED, RINGING, CONNECTED, COMPLETED, FAILED, BUSY, NO_ANSWER}

Phones == {"+15550001"}
Room == "room1"
ParticipantIds == {"PA_1"}

\* A call id is a string; the model keeps its parts apart. NoId is the
\* call_id argument left at its default (None).
NoId == [kind |-> "none", ts |-> 0, tail |-> ""]
CustomId == [kind |-> "custom", ts |-> 0, tail |-> "c1"]
GarbageId == [kind |-> "custom", ts |-> 0, tail |-> "garbage"]
\* The webhook handler passes the provider's call id or none; the tools and
\* the command line never pass one to make_outbound_call.
InboundIdArgs == {NoId, CustomId}
OutboundIdArgs == {NoId}

VARIABLES
    active_calls,       \* self.active_calls: insertion-ordered <<[call_id, rec]>>
    heap,               \* the CallMetadata objects ever constructed, by reference
    tasks,              \* the operations called, each with its position: a bag
    webhooks,           \* the POSTs issued by _send_call_webhook, a bag
    lkapi_log,          \* the requests made to the LiveKit room API, a bag
    clock,              \* datetime.now()
    sip_trunk_id,       \* TWILIO_SIP_TRUNK_ID
    outbound_trunk_id,  \* TWILIO_OUTBOUND_TRUNK_ID
    webhook_url,        \* CALL_WEBHOOK_URL
    sender,             \* the notification being delivered: the coroutine's locals
    io_log,             \* the sender's requests, releases and sleeps, and what
                        \* each attempt came to, in order
    ctx,                \* the transcript sources of a session
    stage,              \* how far the transcript aggregator has come
    items,              \* the transcript items as the aggregator passes them on
    transcript_text,    \* the dialogue block rendered from the merged items
    job                 \* an agent job: its egress manager, the stop_recording
                        \* calls, the background tasks, the shutdown callbacks

vars == <<active_calls, heap, tasks, webhooks, lkapi_log, clock,
          sip_trunk_id, outbound_trunk_id, webhook_url,
          sender, io_log, ctx, stage, items, transcript_text, job>>

config == <<sip_trunk_id, outbound_trunk_id, webhook_url>>

registry == <<active_calls, heap, tasks, webhooks, lkapi_log, clock, config>>

delivery == <<sender, io_log>>

aggregator == <<ctx, stage, items, transcript_text>>

\* ------------------------------------------------------ the dictionary
Keys(ac) == {ac[i].call_id : i \in 1..Len(ac)}

Has(ac, id) == id \in Keys(ac)

Get(ac, id) == ac[CHOOSE i \in 1..Len(ac) : ac[i].call_id = id].rec

\* d[id] = r: a new key goes last, an existing key keeps its place.
Put(ac, id, r) ==
    IF Has(ac, id)
    THEN [i \in 1..Len(ac) |->
            IF ac[i].call_id = id THEN [call_id |-> id, rec |-> r] ELSE ac[i]]
    ELSE Append(ac, [call_id |-> id, rec |-> r])

Del(ac, id) == SelectSeq(ac, LAMBDA e : e.call_id # id)

KeyList(ac) == [i \in 1..Len(ac) |-> ac[i].call_id]

\* The registry and its surroundings, as one value the steps transform.
\* now is what datetime.now() returns to the step.
World(now) ==
    [ac |-> active_calls, heap |-> heap, wh |-> webhooks, lk |-> lkapi_log,
     now |-> now]

\* The clock never runs backwards.
Times == clock..MaxClock

\* ------------------------------------------------------------ the record
CallMetadata(id, dir, phone, meta, now) ==
    [call_id |-> id,
     direction |-> dir,
     phone_number |-> phone,
     room_name |-> Room,
     sip_participant_id |-> None,
     start_time |-> now,
     end_time |-> NoTime,
     status |-> INITIATED,
     duration_seconds |-> NoTime,
     recording_url |-> None,
     transcript |-> <<>>,
     metadata |-> meta]

\* f"inbound_{now:%Y%m%d_%H%M%S}_{phone_number}": the clock to the second.
GeneratedId(prefix, phone, now) ==
    [kind |-> prefix, ts |-> now \div UnitsPerSec, tail |-> phone]

\* call_id or f"...": a missing id is generated.
ResolveId(arg, prefix, phone, now) ==
    IF arg = NoId THEN GeneratedId(prefix, phone, now) ELSE arg

TrunkFor(dir) == IF dir = INBOUND THEN sip_trunk_id ELSE outbound_trunk_id

ProvisionedStatus(dir) == IF dir = INBOUND THEN CONNECTED ELSE RINGING

StartEvent(dir) == IF dir = INBOUND THEN "call_started" ELSE "call_initiated"

\* ------------------------------------------------------ _send_call_webhook
Payload(h, r, event) ==
    [event_type |-> event,
     rec |-> r,
     call_id |-> h[r].call_id,
     direction |-> h[r].direction,
     status |-> h[r].status,
     start_time |-> h[r].start_time,
     end_time |-> h[r].end_time,
     duration_seconds |-> h[r].duration_seconds,
     sip_participant_id |-> h[r].sip_participant_id,
     transcript |-> h[r].transcript]

\* Up to the POST: nothing at all without a URL, else one request.
SendCallWebhook(w, r, event) ==
    IF webhook_url = None
    THEN w
    ELSE [w EXCEPT !.wh = @ (+) SetToBag({Payload(w.heap, r, event)})]

\* The POST is the only await of _send_call_webhook.
WebhookSuspends == webhook_url # None

\* How the POST ends: a status below 400, a status of 400 or more, an
\* exception (connection refused, timeout, ...).
HookOutcomes == {"delivered", "rejected", "exception"}

\* Mutant: a delivery that failed is attempted again.
PostAgainOnFailure(w, r, event, outcome) ==
    IF outcome = "delivered"
    THEN w
    ELSE [w EXCEPT !.wh = @ (+) SetToBag({Payload(w.heap, r, event)})]

\* After the POST: the status is logged (a warning from 400 on), an exception
\* is logged; nothing more is sent.
AfterPost(w, r, event, outcome) == w

\* Mutant: the exception of the POST escapes to the caller.
ExceptionEscapes(outcome) == outcome = "exception"

\* `except Exception` around the body of _send_call_webhook: whatever the
\* outcome, the caller's await returns None.
WebhookRaises(outcome) == FALSE

\* ------------------------------- handle_inbound_call / make_outbound_call
\* Mutant: the configuration check is left out.
TrunkNeverMissing(dir) == FALSE

\* `if not self.sip_trunk_id` / `if not self.outbound_trunk_id`
TrunkMissing(dir) == TrunkFor(dir) = None

CreateRequest(dir, phone) ==
    [kind |-> "create_sip_participant", room |-> Room, target |-> phone,
     trunk |-> TrunkFor(dir)]

\* From the call to the provisioning await: the configuration check, the id,
\* the new record, the request to the room API.
CreateEnter(w, dir, phone, arg, meta) ==
    IF TrunkMissing(dir)
    THEN [w |-> w, pc |-> "done", result |-> "ValueError", rec |-> 0,
          call_id |-> arg]
    ELSE LET id == ResolveId(arg, dir, phone, w.now)
         IN  [w |-> [w EXCEPT
                        !.heap = Append(@, CallMetadata(id, dir, phone, meta, w.now)),
                        !.lk = @ (+) SetToBag({CreateRequest(dir, phone)})],
              pc |-> "await_create", result |-> "pending",
              rec |-> Len(w.heap) + 1, call_id |-> id]

\* Mutant: make_outbound_call copies the inbound status.
MarkProvisionedConnected(h, r, dir, pid) ==
    [h EXCEPT ![r].sip_participant_id = pid, ![r].status = CONNECTED]

\* call_metadata.sip_participant_id = ...; call_metadata.status = ...
MarkProvisioned(h, r, dir, pid) ==
    [h EXCEPT ![r].sip_participant_id = pid,
              ![r].status = ProvisionedStatus(dir)]

\* self.active_calls[call_id] = call_metadata
StoreCall(ac, id, r) == Put(ac, id, r)

\* Mutant: the call is stored and returned without its start notification.
CreateProvisionedUnannounced(w, id, r, dir, pid) ==
    [w |-> [w EXCEPT !.heap = [@ EXCEPT ![r].sip_participant_id = pid,
                                        ![r].status = CONNECTED],
                     !.ac = Put(@, id, r)],
     pc |-> "done", result |-> "record"]

\* The provisioning call returned pid: participant id and status, the store,
\* the start notification up to its POST.
CreateProvisioned(w, id, r, dir, pid) ==
    LET w1 == [w EXCEPT !.heap = MarkProvisioned(@, r, dir, pid),
                        !.ac = StoreCall(@, id, r)]
    IN  [w |-> SendCallWebhook(w1, r, StartEvent(dir)),
         pc |-> IF WebhookSuspends THEN "await_webhook" ELSE "done",
         result |-> IF WebhookSuspends THEN "pending" ELSE "record"]

\* Mutant: the handler forgets the end_time.
CreateFailedNoEndTime(w, r) ==
    [w |-> [w EXCEPT !.heap = [@ EXCEPT ![r].status = FAILED]],
     pc |-> "done", result |-> "raised"]

\* except Exception: status FAILED, end_time, raise
CreateFailed(w, r) ==
    [w |-> [w EXCEPT !.heap = [@ EXCEPT ![r].status = FAILED,
                                        ![r].end_time = w.now]],
     pc |-> "done", result |-> "raised"]

\* ------------------------------------------------------------- end_call
RemoveRequest(h, r) ==
    [kind |-> "remove_participant", room |-> h[r].room_name,
     target |-> h[r].sip_participant_id, trunk |-> None]

\* int((end_time - start_time).total_seconds())
DurationSeconds(start, end) == (end - start) \div UnitsPerSec

\* end_time, status, duration_seconds
MarkCompleted(h, r, now) ==
    [h EXCEPT ![r].end_time = now,
              ![r].status = COMPLETED,
              ![r].duration_seconds =
                  IF h[r].start_time # NoTime
                  THEN DurationSeconds(h[r].start_time, now)
                  ELSE @]

\* Mutant: an unknown id is reported as ended.
EndCallUnknownTrue(w) ==
    [w |-> w, pc |-> "return", result |-> "true", rec |-> 0]

\* `call_id not in self.active_calls`: warning, return False
EndCallUnknown(w) == [w |-> w, pc |-> "return", result |-> "false", rec |-> 0]

\* Mutant: the removal of a key that is gone passes for a removal.
EndCallRemoveLenient(w, id, r) ==
    [w |-> [w EXCEPT !.ac = Del(@, id)], pc |-> "return", result |-> "true",
     rec |-> r]

\* del self.active_calls[call_id]; return True. A key that is gone raises
\* KeyError into the handler below, which returns False.
EndCallRemove(w, id, r) ==
    IF Has(w.ac, id)
    THEN [w |-> [w EXCEPT !.ac = Del(@, id)], pc |-> "return",
          result |-> "true", rec |-> r]
    ELSE [w |-> w, pc |-> "return", result |-> "false", rec |-> r]

\* The record update and the call_ended notification up to its POST; without
\* a URL nothing suspends and the removal follows at once.
EndCallTerminate(w, id, r) ==
    LET w1 == SendCallWebhook([w EXCEPT !.heap = MarkCompleted(@, r, w.now)], r,
                              "call_ended")
    IN  IF WebhookSuspends
        THEN [w |-> w1, pc |-> "await_webhook", result |-> "pending", rec |-> r]
        ELSE EndCallRemove(w1, id, r)

\* except Exception around the whole body: log, return False
EndCallFailed(w, r) == [w |-> w, pc |-> "return", result |-> "false", rec |-> r]

\* From the call to the first await.
EndCallEnter(w, id) ==
    IF ~Has(w.ac, id)
    THEN EndCallUnknown(w)
    ELSE LET r == Get(w.ac, id)
         IN  IF w.heap[r].sip_participant_id # None
             THEN [w |-> [w EXCEPT !.lk = @ (+) SetToBag({RemoveRequest(w.heap, r)})],
                   pc |-> "await_remove", result |-> "pending", rec |-> r]
             ELSE EndCallTerminate(w, id, r)

\* ---------------------------------------------------------------- cleanup
\* for call_id in list(self.active_calls.keys()): await self.end_call(call_id)
\* run until an end_call suspends or the list is exhausted.
RECURSIVE CleanupLoop(_, _, _)
CleanupLoop(w, todo, ended) ==
    IF todo = <<>>
    THEN [w |-> w, pc |-> "done", result |-> "none", rec |-> 0,
          todo |-> todo, ended |-> ended]
    ELSE LET o == EndCallEnter(w, Head(todo))
         IN  IF o.pc = "return"
             THEN CleanupLoop(o.w, Tail(todo),
                              Append(ended, [call_id |-> Head(todo),
                                             result |-> o.result]))
             ELSE [w |-> o.w, pc |-> o.pc, result |-> "pending", rec |-> o.rec,
                   todo |-> todo, ended |-> ended]

\* ------------------------------------- update_call_status / add_call_transcript
Attributes == {"call_id", "direction", "phone_number", "room_name",
               "sip_participant_id", "start_time", "end_time", "status",
               "duration_seconds", "recording_url", "transcript", "metadata"}

\* The **kwargs a caller passes, in order. call_id and status are parameters
\* of update_call_status, so neither can be the name of an extra field.
KwargChoices ==
    {<<>>,
     <<[key |-> "note", value |-> "n1"]>>,
     <<[key |-> "sip_participant_id", value |-> None],
       [key |-> "note", value |-> "n1"]>>,
     <<[key |-> "direction", value |-> OUTBOUND]>>,
     <<[key |-> "transcript", value |-> <<>>]>>}

\* The (status, kwargs) pairs update_call_status is called with: every status
\* alone, and each field together with CONNECTED.
UpdateArgs ==
    {[status |-> st, kwargs |-> <<>>] : st \in CallStatus}
        \cup {[status |-> CONNECTED, kwargs |-> kw] : kw \in KwargChoices}

\* Mutant: every extra field goes into the metadata mapping.
SetFieldInMetadata(rec, key, value) ==
    [rec EXCEPT !.metadata =
        [k \in DOMAIN rec.metadata \cup {key} |->
            IF k = key THEN value ELSE rec.metadata[k]]]

\* hasattr(call_metadata, key): setattr, else call_metadata.metadata[key] = value
SetField(rec, key, value) ==
    IF key \in Attributes
    THEN [rec EXCEPT ![key] = value]
    ELSE [rec EXCEPT !.metadata =
             [k \in DOMAIN rec.metadata \cup {key} |->
                 IF k = key THEN value ELSE rec.metadata[k]]]

RECURSIVE ApplyKwargs(_, _)
ApplyKwargs(rec, kwargs) ==
    IF kwargs = <<>>
    THEN rec
    ELSE ApplyKwargs(SetField(rec, Head(kwargs).key, Head(kwargs).value),
                     Tail(kwargs))

\* call_metadata.status = status
SetStatus(rec, status) == [rec EXCEPT !.status = status]

UpdateRecord(rec, status, kwargs) == ApplyKwargs(SetStatus(rec, status), kwargs)

\* Mutant: an unknown id is reported as updated.
UpdateCallStatusUnknownTrue(h) == [heap |-> h, rec |-> 0, result |-> "true"]

\* `call_id not in self.active_calls`: warning, return False
UpdateCallStatusUnknown(h) == [heap |-> h, rec |-> 0, result |-> "false"]

\* update_call_status, whole: it never awaits.
UpdateCallStatusOn(ac, h, id, status, kwargs) ==
    IF ~Has(ac, id)
    THEN UpdateCallStatusUnknown(h)
    ELSE LET r == Get(ac, id)
         IN  [heap |-> [h EXCEPT ![r] = UpdateRecord(@, status, kwargs)],
              rec |-> r, result |-> "true"]

TranscriptEntries == {[role |-> "user", text |-> "hi"]}

\* `call_id not in self.active_calls`: warning, return False
AddCallTranscriptUnknown(h) == [heap |-> h, rec |-> 0, result |-> "false"]

\* call_metadata.transcript.append(transcript_entry)
AppendEntry(transcript, entry) == Append(transcript, entry)

\* add_call_transcript, whole: it never awaits.
AddCallTranscriptOn(ac, h, id, entry) ==
    IF ~Has(ac, id)
    THEN AddCallTranscriptUnknown(h)
    ELSE LET r == Get(ac, id)
         IN  [heap |-> [h EXCEPT ![r].transcript = AppendEntry(@, entry)],
              rec |-> r, result |-> "true"]

\* ------------------------------------------------------------------ tasks
\* A task: the operation, its arguments and locals (call_id, rec, sip), where
\* it stands (pc), how its provisioning or removal await ended (io), how its
\* last notification POST ended (hook), what it returned (result); the
\* arguments of update_call_status and add_call_transcript (args); for cleanup
\* the ids still to end and the outcomes so far.
Task(op, dir, o, todo, ended) ==
    [op |-> op, dir |-> dir, pc |-> o.pc, call_id |-> o.call_id,
     rec |-> o.rec, result |-> o.result, sip |-> None, io |-> "none",
     hook |-> "none", args |-> <<>>, todo |-> todo, ended |-> ended]

\* An operation that returned without suspending.
Returned(op, id, r, result) ==
    [op |-> op, dir |-> None, pc |-> "done", call_id |-> id, rec |-> r,
     result |-> result, sip |-> None, io |-> "none", hook |-> "none",
     args |-> <<>>, todo |-> <<>>, ended |-> <<>>]

TaskSet == BagToSet(tasks)

Spawn(tk) == tasks' = tasks (+) SetToBag({tk})

Step(tk, next) == tasks' = (tasks (-) SetToBag({tk})) (+) SetToBag({next})

TaskLimit ==
    IF outbound_trunk_id = None /\ webhook_url = None
    THEN MaxBareTasks
    ELSE MaxTasks

CanCall == BagCardinality(tasks) < TaskLimit

Commit(w) ==
    /\ active_calls' = w.ac
    /\ heap' = w.heap
    /\ webhooks' = w.wh
    /\ lkapi_log' = w.lk
    /\ clock' = w.now

\* A step that read no clock leaves the time to the next step that does.
ReadsClock(w) == w.heap # heap

Timely(w) == ReadsClock(w) \/ w.now = clock

CreateOps == {"handle_inbound_call", "make_outbound_call"}

EndOps == {"end_call", "cleanup"}

\* The ids a caller of end_call / update_call_status can name: those of the
\* calls created so far, and one that never was.
KnownIds ==
    {tk.call_id : tk \in {u \in TaskSet : u.op \in CreateOps /\ u.rec # 0}}
        \cup {GarbageId}

\* No response yet.
NoResp == [status |-> 0, location |-> None, released |-> FALSE]

\* No notification is being delivered.
NoSender ==
    [path |-> None, pc |-> "idle", io |-> "none", attempt |-> 0, hop |-> 0,
     current_url |-> None, method |-> None, resp |-> NoResp,
     result |-> [shape |-> "pending", status |-> None, message |-> None]]

DeliveryAtRest == sender = NoSender /\ io_log = <<>>

\* ---- transcript sources and raw items (end_call_report.py) ----
\* A text is a sequence of characters; only the blank and the line break
\* matter to strip().
\* A timestamp is a number, 0 for a missing (falsy) one.
NoTs == 0
Now == 9

\* The content field of an item: missing, a string, or a list whose elements
\* are strings s or None (none).
NoContent == [type |-> "none", str |-> <<>>, list |-> <<>>]
StrContent(s) == [type |-> "str", str |-> s, list |-> <<>>]
ListContent(l) == [type |-> "list", str |-> <<>>, list |-> l]

\* A raw transcript item: None, a dict, a string, or some other object.
\* role, text, content and ts of a dict stand for the first of its alias
\* keys that is set ("" and <<>> for none); value is what str() gives for a
\* string or object; raises tells which conversion of the item fails.
RawItem(kind, role, text, content, ts, value, raises) ==
    [kind |-> kind, role |-> role, text |-> text, content |-> content,
     ts |-> ts, value |-> value, raises |-> raises]
DictItem(role, text, content, ts) ==
    RawItem("dict", role, text, content, ts, <<>>, "no")
StrItem(value) == RawItem("str", "", <<>>, NoContent, NoTs, value, "no")

\* A transcript container as a source holds it: missing, a list, a dict with
\* one key ("" for a dict without a list under a key), an iterable object
\* without a length, an object that cannot be iterated, or one whose access
\* raises.
Container(shape, key, val) == [shape |-> shape, key |-> key, val |-> val]
Absent == Container("none", "", <<>>)
ListOf(val) == Container("list", "", val)
DictOf(key, val) == Container("dict", key, val)

\* A session without any transcript source.
NoCtx ==
    [attached |-> Absent, history |-> Absent, conversation |-> Absent,
     messages |-> Absent, agent |-> Absent, file |-> Absent]

AggregatorAtRest ==
    ctx = NoCtx /\ stage = "idle" /\ items = <<>> /\ transcript_text = <<>>

\* A job before anything happened: no report URL, no egress manager.
NoJob ==
    [url |-> FALSE, duration |-> 0, history |-> Absent, report |-> "pending",
     reports |-> 0,
     manager |-> [present |-> FALSE, lkapi |-> FALSE, egress_id |-> FALSE],
     egress |-> "none", calls |-> <<>>, stops |-> <<>>,
     background_tasks |-> {}, closed |-> FALSE, shutdown |-> "idle"]

Init ==
    /\ DeliveryAtRest
    /\ AggregatorAtRest
    /\ job = NoJob
    /\ active_calls = <<>>
    /\ heap = <<>>
    /\ tasks = EmptyBag
    /\ webhooks = EmptyBag
    /\ lkapi_log = EmptyBag
    /\ clock = 0
    /\ sip_trunk_id \in {None, "ST_inbound"}
    /\ outbound_trunk_id \in {None, "ST_outbound"}
    /\ webhook_url \in {None, "https://hook"}
    \* one setting at most is missing
    /\ \/ sip_trunk_id # None /\ outbound_trunk_id # None
       \/ sip_trunk_id # None /\ webhook_url # None
       \/ outbound_trunk_id # None /\ webhook_url # None

HandleInboundCall(phone, arg, now) ==
    /\ CanCall
    /\ LET o == CreateEnter(World(now), INBOUND, phone, arg,
                            [caller_id |-> None, source |-> "twilio_sip"])
       IN  /\ Timely(o.w)
           /\ Commit(o.w)
           /\ Spawn(Task("handle_inbound_call", INBOUND, o, <<>>, <<>>))
    /\ UNCHANGED <<config, delivery, aggregator, job>>

MakeOutboundCall(phone, arg, now) ==
    /\ CanCall
    /\ LET o == CreateEnter(World(now), OUTBOUND, phone, arg,
                            [agent_instructions |-> None, source |-> "twilio_sip"])
       IN  /\ Timely(o.w)
           /\ Commit(o.w)
           /\ Spawn(Task("make_outbound_call", OUTBOUND, o, <<>>, <<>>))
    /\ UNCHANGED <<config, delivery, aggregator, job>>

\* await self._create_sip_participant(...) returns the participant
CreateSipParticipantReturns(tk, pid) ==
    /\ tk.op \in CreateOps
    /\ tk.pc = "await_create"
    /\ LET o == CreateProvisioned(World(clock), tk.call_id, tk.rec, tk.dir, pid)
       IN  /\ Commit(o.w)
           /\ Step(tk, [tk EXCEPT !.pc = o.pc, !.result = o.result, !.sip = pid,
                                  !.io = "returned"])
    /\ UNCHANGED <<config, delivery, aggregator, job>>

\* await self._create_sip_participant(...) raises
CreateSipParticipantRaises(tk, now) ==
    /\ tk.op \in CreateOps
    /\ tk.pc = "await_create"
    /\ LET o == CreateFailed(World(now), tk.rec)
       IN  /\ Commit(o.w)
           /\ Step(tk, [tk EXCEPT !.pc = o.pc, !.result = o.result,
                                  !.io = "raised"])
    /\ UNCHANGED <<config, delivery, aggregator, job>>

\* The start notification's POST is over; the operation returns the record,
\* or handles what _send_call_webhook raised.
StartWebhookCompletes(tk, outcome, now) ==
    /\ tk.op \in CreateOps
    /\ tk.pc = "await_webhook"
    /\ LET w == AfterPost(World(now), tk.rec, StartEvent(tk.dir), outcome)
           o == IF WebhookRaises(outcome)
                THEN CreateFailed(w, tk.rec)
                ELSE [w |-> w, pc |-> "done", result |-> "record"]
       IN  /\ Timely(o.w)
           /\ Commit(o.w)
           /\ Step(tk, [tk EXCEPT !.pc = o.pc, !.result = o.result,
                                  !.hook = outcome])
    /\ UNCHANGED <<config, delivery, aggregator, job>>

\* An end_call step has left the task at o: an end_call task returns or
\* suspends; cleanup goes on to the next id.
Resume(tk0, io, hook, o) ==
    LET tk == [tk0 EXCEPT !.io = io, !.hook = hook] IN
    IF tk.op = "end_call"
    THEN /\ Timely(o.w)
         /\ Commit(o.w)
         /\ Step(tk0, [tk EXCEPT !.pc = IF o.pc = "return" THEN "done" ELSE o.pc,
                                !.result = o.result,
                                !.rec = o.rec])
    ELSE LET c == IF o.pc = "return"
                  THEN CleanupLoop(o.w, Tail(tk.todo),
                                   Append(tk.ended, [call_id |-> Head(tk.todo),
                                                     result |-> o.result]))
                  ELSE [w |-> o.w, pc |-> o.pc, result |-> "pending",
                        rec |-> o.rec, todo |-> tk.todo, ended |-> tk.ended]
         IN  /\ Timely(c.w)
             /\ Commit(c.w)
             /\ Step(tk0, [tk EXCEPT !.pc = c.pc, !.result = c.result,
                                    !.rec = c.rec, !.todo = c.todo,
                                    !.call_id = IF c.todo = <<>> THEN NoId
                                                ELSE Head(c.todo),
                                    !.ended = c.ended])

EndCall(id, now) ==
    /\ CanCall
    /\ LET o == EndCallEnter(World(now), id)
       IN  /\ Timely(o.w)
           /\ Commit(o.w)
           /\ Spawn([Returned("end_call", id, o.rec, o.result) EXCEPT
                        !.pc = IF o.pc = "return" THEN "done" ELSE o.pc])
    /\ UNCHANGED <<config, delivery, aggregator, job>>

\* await self.lkapi.room.remove_participant(...) returns
RemoveParticipantReturns(tk, now) ==
    /\ tk.op \in EndOps
    /\ tk.pc = "await_remove"
    /\ Resume(tk, "returned", tk.hook,
              EndCallTerminate(World(now), tk.call_id, tk.rec))
    /\ UNCHANGED <<config, delivery, aggregator, job>>

\* await self.lkapi.room.remove_participant(...) raises
RemoveParticipantRaises(tk, now) ==
    /\ tk.op \in EndOps
    /\ tk.pc = "await_remove"
    /\ Resume(tk, "raised", tk.hook, EndCallFailed(World(now), tk.rec))
    /\ UNCHANGED <<config, delivery, aggregator, job>>

\* The call_ended notification's POST is over; end_call removes the call, or
\* handles what _send_call_webhook raised.
EndWebhookCompletes(tk, outcome, now) ==
    /\ tk.op \in EndOps
    /\ tk.pc = "await_webhook"
    /\ LET w == AfterPost(World(now), tk.rec, "call_ended", outcome)
       IN  Resume(tk, tk.io, outcome,
                  IF WebhookRaises(outcome)
                  THEN EndCallFailed(w, tk.rec)
                  ELSE EndCallRemove(w, tk.call_id, tk.rec))
    /\ UNCHANGED <<config, delivery, aggregator, job>>

Cleanup(now) ==
    /\ CanCall
    /\ LET c == CleanupLoop(World(now), KeyList(active_calls), <<>>)
       IN  /\ Timely(c.w)
           /\ Commit(c.w)
           /\ Spawn([Returned("cleanup",
                              IF c.todo = <<>> THEN NoId ELSE Head(c.todo),
                              c.rec, c.result) EXCEPT
                        !.pc = c.pc, !.todo = c.todo, !.ended = c.ended])
    /\ UNCHANGED <<config, delivery, aggregator, job>>

UpdateCallStatus(id, status, kwargs) ==
    /\ CanCall
    /\ LET o == UpdateCallStatusOn(active_calls, heap, id, status, kwargs)
       IN  /\ heap' = o.heap
           /\ Spawn([Returned("update_call_status", id, o.rec, o.result)
                        EXCEPT !.args = <<status, kwargs>>])
    /\ UNCHANGED <<active_calls, webhooks, lkapi_log, clock, config,
                   delivery, aggregator, job>>

AddCallTranscript(id, entry) ==
    /\ CanCall
    /\ LET o == AddCallTranscriptOn(active_calls, heap, id, entry)
       IN  /\ heap' = o.heap
           /\ Spawn([Returned("add_call_transcript", id, o.rec, o.result)
                        EXCEPT !.args = <<entry>>])
    /\ UNCHANGED <<active_calls, webhooks, lkapi_log, clock, config,
                   delivery, aggregator, job>>

Next ==
    \/ \E phone \in Phones, arg \in InboundIdArgs, now \in Times :
          HandleInboundCall(phone, arg, now)
    \/ \E phone \in Phones, arg \in OutboundIdArgs, now \in Times :
          MakeOutboundCall(phone, arg, now)
    \/ \E tk \in TaskSet, pid \in ParticipantIds :
          CreateSipParticipantReturns(tk, pid)
    \/ \E tk \in TaskSet, now \in Times : CreateSipParticipantRaises(tk, now)
    \/ \E tk \in TaskSet, outcome \in HookOutcomes, now \in Times :
          StartWebhookCompletes(tk, outcome, now)
    \/ \E id \in KnownIds, now \in Times : EndCall(id, now)
    \/ \E tk \in TaskSet, now \in Times : RemoveParticipantReturns(tk, now)
    \/ \E tk \in TaskSet, now \in Times : RemoveParticipantRaises(tk, now)
    \/ \E tk \in TaskSet, outcome \in HookOutcomes, now \in Times :
          EndWebhookCompletes(tk, outcome, now)
    \/ \E now \in Times : Cleanup(now)
    \/ \E id \in KnownIds, a \in UpdateArgs :
          UpdateCallStatus(id, a.status, a.kwargs)
    \/ \E id \in KnownIds, entry \in TranscriptEntries :
          AddCallTranscript(id, entry)

Spec == Init /\ [][Next]_vars

\* What the event loop and the network guarantee: a POST ends (aiohttp's
\* default total timeout) and a task that can go on is scheduled. The calls to
\* the room API carry no timeout: a remove_participant may never come back.
PostEnds ==
    \/ \E tk \in TaskSet, outcome \in HookOutcomes, now \in Times :
          StartWebhookCompletes(tk, outcome, now)
    \/ \E tk \in TaskSet, outcome \in HookOutcomes, now \in Times :
          EndWebhookCompletes(tk, outcome, now)

FairSpec == Spec /\ WF_vars(PostEnds)

\* The registry in the bare configuration: the inbound trunk only. No
\* notification is sent (_send_call_webhook returns at once), so the awaits
\* left are those of the room API.
BareInit ==
    /\ DeliveryAtRest
    /\ AggregatorAtRest
    /\ job = NoJob
    /\ active_calls = <<>>
    /\ heap = <<>>
    /\ tasks = EmptyBag
    /\ webhooks = EmptyBag
    /\ lkapi_log = EmptyBag
    /\ clock = 0
    /\ sip_trunk_id = "ST_inbound"
    /\ outbound_trunk_id = None
    /\ webhook_url = None

BareNext ==
    \/ \E phone \in Phones, arg \in InboundIdArgs, now \in Times :
          HandleInboundCall(phone, arg, now)
    \/ \E tk \in TaskSet, pid \in ParticipantIds :
          CreateSipParticipantReturns(tk, pid)
    \/ \E tk \in TaskSet, now \in Times : CreateSipParticipantRaises(tk, now)
    \/ \E id \in KnownIds, now \in Times : EndCall(id, now)
    \/ \E tk \in TaskSet, now \in Times : RemoveParticipantReturns(tk, now)
    \/ \E tk \in TaskSet, now \in Times : RemoveParticipantRaises(tk, now)
    \/ \E now \in Times : Cleanup(now)

BareSpec == BareInit /\ [][BareNext]_vars

\* The registry before any call, fully configured.
RegistryAtRest ==
    /\ active_calls = <<>>
    /\ heap = <<>>
    /\ tasks = EmptyBag
    /\ webhooks = EmptyBag
    /\ lkapi_log = EmptyBag
    /\ clock = 0
    /\ sip_trunk_id = "ST_inbound"
    /\ outbound_trunk_id = "ST_outbound"
    /\ webhook_url = "https://hook"

\* ================================================ delivery of notifications
\* _post_json_with_redirects(..., max_redirects: int = 3)
max_redirects == 3
\* confirm_and_send_appointment / schedule_appointment: max_retries = 3
max_retries == 3
\* backoff_seconds = 0.75, counted in quarter seconds
backoff_seconds == 3

\* `resp.status in {301, 302, 303, 307, 308}`
RedirectStatuses == {301, 302, 303, 307, 308}

\* What a receiver answers: the redirects, and one status of each other class
\* (304 is a 3xx that is no redirect to the code).
Statuses == RedirectStatuses \cup {200, 304, 404, 500}

\* The Location header of a response; None when there is none.
Locations == {None, "/final"}

\* The paths on which notifications leave: the two appointment tools, the
\* end-of-session report, the per-call event webhook.
RetryPaths == {"confirm_and_send_appointment", "schedule_appointment"}

ReportPath == "send_end_call_report"

EventPath == "_send_call_webhook"

Paths == RetryPaths \cup {ReportPath, EventPath}

\* session.post(current_url, json=payload, headers=headers, ...)
PostRequest(url) ==
    [kind |-> "request", method |-> "POST", url |-> url, body |-> "payload",
     headers |-> "json", units |-> 0]

\* The request the HTTP client library makes by itself after a redirect.
FollowRequest(method, url) ==
    [kind |-> "request", method |-> method, url |-> url,
     body |-> IF method = "POST" THEN "payload" ELSE "none",
     headers |-> IF method = "POST" THEN "json" ELSE "none", units |-> 0]

\* await resp.release(), of the response to the request sent to url
Release(url) ==
    [kind |-> "release", method |-> None, url |-> url, body |-> "none",
     headers |-> "none", units |-> 0]

\* await asyncio.sleep(backoff_seconds * attempt)
Sleep(units) ==
    [kind |-> "sleep", method |-> None, url |-> None, body |-> "none",
     headers |-> "none", units |-> units]

\* What an attempt came to: the status of the response handed to the caller
\* (units), or an exception (units 0).
Outcome(kind, status) ==
    [kind |-> kind, method |-> None, url |-> None, body |-> "none",
     headers |-> "none", units |-> status]

\* The URL a notification is configured to go to.
Target == "https://hook"

\* What a path hands back: a mapping (confirm_and_send_appointment), a
\* sentence (schedule_appointment), nothing (the report and the event webhook).
Result(path, status, message) ==
    IF path = "confirm_and_send_appointment"
    THEN [shape |-> "dict", status |-> status, message |-> message]
    ELSE IF path = "schedule_appointment"
    THEN [shape |-> "str", status |-> None, message |-> message]
    ELSE [shape |-> "None", status |-> None, message |-> None]

Finish(s, status, message) ==
    [s EXCEPT !.pc = "done", !.result = Result(s.path, status, message)]

\* Mutant: the loop runs once more.
HopsLeftOneMore(hop) == hop <= max_redirects

\* `for _ in range(max_redirects + 1)`: another iteration follows iteration hop
HopsLeft(hop) == hop < max_redirects

\* Mutant: the redirect is followed the way a browser would.
RepostAsGet(url) == FollowRequest("GET", url)

\* The next iteration's session.post: to the Location, same payload and headers.
Repost(url) == PostRequest(url)

\* _post_json_with_redirects, from a response to the next await or the
\* return: a redirect with a Location is released and followed while the loop
\* lasts; anything else, and the last redirect, is returned. (The two copies
\* differ only in the order of `current_url = location` and the release.)
PostJsonAfterResponse(s, log, status, location) ==
    LET r == [status |-> status, location |-> location, released |-> FALSE]
    IN  IF status \in RedirectStatuses /\ location # None
        THEN LET s1 == [s EXCEPT !.resp = [r EXCEPT !.released = TRUE],
                                 !.current_url = location]
                 log1 == Append(log, Release(s.current_url))
             IN  IF HopsLeft(s.hop)
                 THEN [s |-> [s1 EXCEPT !.hop = @ + 1],
                       log |-> Append(log1, Repost(location)),
                       returned |-> FALSE]
                 ELSE [s |-> s1, log |-> log1, returned |-> TRUE]
        ELSE [s |-> [s EXCEPT !.resp = r], log |-> log, returned |-> TRUE]

\* aiohttp's own redirect handling (allow_redirects left at its default):
\* 303, and 301/302 after a POST, go on as GET without the body.
LibraryMethod(method, status) ==
    IF status = 303 \/ (status \in {301, 302} /\ method = "POST")
    THEN "GET"
    ELSE method

\* session.post(self.webhook_url, json=payload, headers=...) of
\* _send_call_webhook, from a response to the next request or the return.
LibraryAfterResponse(s, log, status, location) ==
    LET r == [status |-> status, location |-> location, released |-> FALSE]
    IN  IF status \in RedirectStatuses /\ location # None
        THEN LET m == LibraryMethod(s.method, status)
             IN  [s |-> [s EXCEPT !.resp = [r EXCEPT !.released = TRUE],
                                  !.current_url = location, !.hop = @ + 1,
                                  !.method = m],
                  log |-> Append(Append(log, Release(s.current_url)),
                                 FollowRequest(m, location)),
                  returned |-> FALSE]
        ELSE [s |-> [s EXCEPT !.resp = r], log |-> log, returned |-> TRUE]

\* `200 <= resp.status < 300`
Succeeded(status) == 200 <= status /\ status < 300

\* Mutant: every failure status is retried.
RetryableAnyFailure(status) == status >= 400

\* `500 <= resp.status < 600`
Retryable(status) == 500 <= status /\ status < 600

\* Mutant: the same wait before every attempt.
BackoffConstant(attempt) == backoff_seconds

\* `backoff_seconds * attempt`
Backoff(attempt) == backoff_seconds * attempt

\* Mutant: one attempt more.
AttemptsLeftOneMore(attempt) == attempt < max_retries + 1

\* `attempt < max_retries`
AttemptsLeft(attempt) == attempt < max_retries

\* With the response in hand: success ends the path, anything else has its
\* body read first (await resp.text()).
Respond(s, log) ==
    LET log1 == Append(log, Outcome("response", s.resp.status))
    IN  IF s.path = EventPath \/ Succeeded(s.resp.status)
        THEN [s |-> Finish(s, "ok", "submitted"), log |-> log1]
        ELSE [s |-> [s EXCEPT !.pc = "await_text"], log |-> log1]

WaitAndRetry(s, log) ==
    [s |-> [s EXCEPT !.pc = "await_sleep"],
     log |-> Append(log, Sleep(Backoff(s.attempt)))]

\* The body is read: a 5xx with attempts left waits and goes round again,
\* every other status is the answer. The report only logs.
AfterText(s, log) ==
    IF s.path \in RetryPaths /\ Retryable(s.resp.status)
           /\ AttemptsLeft(s.attempt)
    THEN WaitAndRetry(s, log)
    ELSE [s |-> Finish(s, "error", "failed_status"), log |-> log]

\* Mutant: the last exception is not caught.
AfterExceptionRaising(s, log) ==
    IF s.path \in RetryPaths /\ AttemptsLeft(s.attempt)
    THEN WaitAndRetry(s, log)
    ELSE [s |-> [s EXCEPT !.pc = "done",
                          !.result = [shape |-> "raised", status |-> None,
                                      message |-> None]],
          log |-> log]

\* `except Exception`: with attempts left wait and go round again, else the
\* network error is the answer. The report and the event webhook only log.
AfterException(s, log) ==
    IF s.path \in RetryPaths /\ AttemptsLeft(s.attempt)
    THEN WaitAndRetry(s, log)
    ELSE [s |-> Finish(s, "error", "network_error"), log |-> log]

\* The next iteration of the retry loop: a new session, the POST to the
\* configured URL.
NextAttempt(s, log) ==
    [s |-> [s EXCEPT !.pc = "await_post", !.attempt = @ + 1, !.hop = 0,
                     !.current_url = Target, !.resp = NoResp],
     log |-> Append(log, PostRequest(Target))]

\* io: how the await that the step ends came out.
Settle(io, o) ==
    /\ sender' = [o.s EXCEPT !.io = io]
    /\ io_log' = o.log
    /\ UNCHANGED <<registry, aggregator, job>>

Raised(log) == Append(log, Outcome("exception", 0))

\* One of the paths is entered and sends its first request.
Deliver(path) ==
    /\ sender = NoSender
    /\ Settle("none",
              [s |-> [NoSender EXCEPT !.path = path, !.pc = "await_post",
                                      !.attempt = 1, !.current_url = Target,
                                      !.method = "POST"],
               log |-> <<PostRequest(Target)>>])

\* The receiver answers the request in flight.
PostReturns(status, location) ==
    /\ sender.pc = "await_post"
    /\ sender.path = EventPath => sender.hop < MaxChain
    /\ LET o == IF sender.path = EventPath
                THEN LibraryAfterResponse(sender, io_log, status, location)
                ELSE PostJsonAfterResponse(sender, io_log, status, location)
       IN  Settle("returned",
                  IF o.returned THEN Respond(o.s, o.log)
                  ELSE [s |-> o.s, log |-> o.log])

\* The request in flight fails: connection refused, timeout, bad URL.
PostRaises ==
    /\ sender.pc = "await_post"
    /\ Settle("raised", AfterException(sender, Raised(io_log)))

TextReturns ==
    /\ sender.pc = "await_text"
    /\ Settle("returned", AfterText(sender, io_log))

\* Reading the body fails: the connection broke, or the response had been
\* released.
TextRaises ==
    /\ sender.pc = "await_text"
    /\ Settle("raised", AfterException(sender, Raised(io_log)))

SleepReturns ==
    /\ sender.pc = "await_sleep"
    /\ Settle("returned", NextAttempt(sender, io_log))

\* ---- the tools (tools_telephony.py, tools_appointments.py) ----
MakeCallTool == "TelephonyTools.make_outbound_call"
EndCallTool == "TelephonyTools.end_call"

\* _validate_phone_number, of a number with so many digits, the first of
\* which is or is not a 1
ValidatePhoneNumber(digits, one) ==
    IF digits < 7 \/ digits > 15 THEN FALSE
    ELSE IF digits = 10 THEN TRUE
    ELSE IF digits = 11 /\ one THEN TRUE
    ELSE digits >= 10

\* The mapping a telephony tool returns.
ToolResult(s, status, message, call_id) ==
    [s EXCEPT !.pc = "done",
              !.result = [shape |-> "dict", status |-> status,
                          message |-> message, call_id |-> call_id]]

\* Mutant: the manager's exception is not caught.
ToolExceptionEscapes(s) ==
    [s EXCEPT !.pc = "done",
              !.result = [shape |-> "raised", status |-> None,
                          message |-> None, call_id |-> None]]

\* `except Exception` of the two telephony tools
ToolAfterException(s) ==
    IF s.path = MakeCallTool
    THEN ToolResult(s, "error", "failed_to_initiate", None)
    ELSE ToolResult(s, "error", "error_ending", "c1")

\* A tool is called: the telephony tools with or without a manager, the
\* appointment tool without its URL (with it: Deliver). The returns before
\* the first await, or the call of the manager.
CallTool(tool, configured, digits, one) ==
    /\ sender = NoSender
    /\ tool = "confirm_and_send_appointment" => ~configured
    /\ LET s == [NoSender EXCEPT !.path = tool]
       IN  Settle("none",
                  [s |-> CASE tool = "confirm_and_send_appointment"
                                -> Finish(s, "error", "configuration_error")
                           [] tool = MakeCallTool /\ ~configured
                                -> ToolResult(s, "error", "not_configured", None)
                           [] tool = MakeCallTool
                              /\ ~ValidatePhoneNumber(digits, one)
                                -> ToolResult(s, "error", "invalid_number", None)
                           [] tool = EndCallTool /\ ~configured
                                -> ToolResult(s, "error", "not_configured",
                                              "c1")
                           [] OTHER -> [s EXCEPT !.pc = "await_manager"],
                   log |-> io_log])

\* The manager's operation returns: the record of the new call, or whether
\* the call was ended.
ManagerReturns(success) ==
    /\ sender.pc = "await_manager"
    /\ sender.path = MakeCallTool => success
    /\ Settle("returned",
              [s |-> IF sender.path = MakeCallTool
                     THEN ToolResult(sender, "success", "call_initiated",
                                     "c1")
                     ELSE IF success
                     THEN ToolResult(sender, "success", "call_ended", "c1")
                     ELSE ToolResult(sender, "error", "failed_to_end",
                                     "c1"),
               log |-> io_log])

ManagerRaises ==
    /\ sender.pc = "await_manager"
    /\ Settle("raised", [s |-> ToolAfterException(sender), log |-> io_log])

DeliveryInit ==
    RegistryAtRest /\ DeliveryAtRest /\ AggregatorAtRest /\ job = NoJob

DeliveryNext ==
    \/ \E path \in Paths : Deliver(path)
    \/ \E status \in Statuses, location \in Locations :
          PostReturns(status, location)
    \/ PostRaises
    \/ TextReturns
    \/ TextRaises
    \/ SleepReturns
    \/ \E tool \in {MakeCallTool, EndCallTool, "confirm_and_send_appointment"},
          configured \in BOOLEAN, digits \in {0, 7, 10, 11, 16},
          one \in BOOLEAN :
          CallTool(tool, configured, digits, one)
    \/ \E success \in BOOLEAN : ManagerReturns(success)
    \/ ManagerRaises

DeliverySpec == DeliveryInit /\ [][DeliveryNext]_vars

\* Every await of a sender ends: requests and body reads run under aiohttp's
\* total timeout, a sleep is finite.
FairDeliverySpec == DeliverySpec /\ WF_vars(DeliveryNext)

\* ==================================================== transcript aggregator
\* The most raw items in a source.
MaxItems == 3

\* ---- strings ----
\* str.strip()
RECURSIVE Strip(_)
Strip(s) ==
    IF s # <<>> /\ Head(s) \in {" ", "\n"} THEN Strip(Tail(s))
    ELSE IF s # <<>> /\ s[Len(s)] \in {" ", "\n"}
    THEN Strip(SubSeq(s, 1, Len(s) - 1))
    ELSE s

\* " ".join(parts)
RECURSIVE Join(_)
Join(parts) ==
    IF parts = <<>> THEN <<>>
    ELSE IF Len(parts) = 1 THEN parts[1]
    ELSE parts[1] \o <<" ">> \o Join(Tail(parts))

\* str(x).strip() for x in c if x is not None
RECURSIVE StrippedElems(_)
StrippedElems(l) ==
    IF l = <<>> THEN <<>>
    ELSE IF Head(l).none THEN StrippedElems(Tail(l))
    ELSE <<Strip(Head(l).s)>> \o StrippedElems(Tail(l))

\* str(item): "None", the repr of a dict (never empty), the string itself.
Str(it) ==
    CASE it.kind = "none" -> <<"None">>
      [] it.kind = "dict" -> <<"{">> \o it.text \o <<"}">>
      [] OTHER -> it.value

\* ---- the containers ----
\* bool(container)
Truthy(c) ==
    CASE c.shape = "none" -> FALSE
      [] c.shape = "list" -> c.val # <<>>
      [] OTHER -> TRUE

\* The container itself taken as one item.
AsItem(c) ==
    IF c.shape = "dict" THEN DictItem("", <<>>, NoContent, NoTs)
    ELSE RawItem("object", "", <<>>, NoContent, NoTs, <<"o">>, "no")

EnsureListFromMaybeItems(maybe) ==
    CASE maybe.shape = "none" -> <<>>
      [] maybe.shape = "list" -> maybe.val
      [] maybe.shape = "dict" ->
            IF maybe.key \in {"items", "messages", "transcript", "entries"}
            THEN maybe.val
            ELSE <<AsItem(maybe)>>
      [] maybe.shape = "iter" -> maybe.val
      [] OTHER -> <<AsItem(maybe)>>

\* ---- _collect_raw_transcript_items ----
\* What a source gives: found tells whether the search ends with it.
Found(its) == [found |-> TRUE, items |-> its]
NotFound == [found |-> FALSE, items |-> <<>>]
NonEmpty(its) == IF its # <<>> THEN Found(its) ELSE NotFound

\* 1) ctx.proc.userdata["transcript"]
FromUserdata(td) ==
    IF td.shape # "unreadable" /\ Truthy(td)
    THEN NonEmpty(EnsureListFromMaybeItems(td))
    ELSE NotFound

\* 2) session.history.to_dict(), keys "items" then "messages"
FromHistory(hist_dict) ==
    IF hist_dict.shape = "dict" /\ hist_dict.key \in {"items", "messages"}
    THEN NonEmpty(hist_dict.val)
    ELSE NotFound

\* one of the two accessors of 3): a truthy value that list() accepts;
\* list() gives the keys of a dict, the elements of a list or iterable.
FromAccessor(c) ==
    IF Truthy(c) /\ c.shape # "uniterable"
    THEN Found(IF c.shape = "dict" THEN <<StrItem(<<c.key>>)>> ELSE c.val)
    ELSE NotFound

\* 3) session.conversation, then session.messages
FromConversation(conv, msgs) ==
    IF conv.shape = "unreadable" THEN NotFound
    ELSE IF FromAccessor(conv).found THEN FromAccessor(conv)
    ELSE IF msgs.shape = "unreadable" THEN NotFound
    ELSE FromAccessor(msgs)

\* 4) session.agent.transcript
FromAgent(t) ==
    IF t.shape # "unreadable" /\ Truthy(t)
    THEN Found(EnsureListFromMaybeItems(t))
    ELSE NotFound

\* 5) the JSON file at ctx.proc.userdata["transcript_file"]
FromFile(data) ==
    CASE data.shape = "dict" /\ data.key \in {"transcript", "items", "messages"}
            -> NonEmpty(data.val)
      [] data.shape = "list" -> NonEmpty(data.val)
      [] OTHER -> NotFound

\* The search as the code makes it: the first source that is found.
FirstFound(sources) ==
    IF \E i \in 1..Len(sources) : sources[i].found
    THEN sources[CHOOSE i \in 1..Len(sources) :
                    /\ sources[i].found
                    /\ \A j \in 1..(i - 1) : ~sources[j].found].items
    ELSE <<>>

CollectRawTranscriptItems(c) ==
    FirstFound(<<FromUserdata(c.attached),
                 FromHistory(c.history),
                 FromConversation(c.conversation, c.messages),
                 FromAgent(c.agent),
                 FromFile(c.file)>>)

\* ---- _normalize_items ----
ItemToPlainDict(item) ==
    CASE item.kind = "none" ->
            [role |-> "unknown", content |-> ListContent(<<>>),
             text |-> <<>>, created_at |-> Now]
      [] item.kind = "dict" ->
            [role |-> IF item.role # "" THEN item.role ELSE "unknown",
             content |-> item.content, text |-> item.text,
             created_at |-> item.ts]
      [] OTHER ->
            [role |-> "unknown", content |-> NoContent,
             text |-> <<>>, created_at |-> NoTs]

\* The text of the explicit field, else of the content.
FieldText(plain) ==
    IF plain.text # <<>> THEN Strip(plain.text)
    ELSE IF \/ plain.content.type = "str" /\ plain.content.str # <<>>
            \/ plain.content.type = "list" /\ plain.content.list # <<>>
    THEN IF plain.content.type = "list"
         THEN Strip(Join(StrippedElems(plain.content.list)))
         ELSE Strip(plain.content.str)
    ELSE <<>>

\* The text of an item: its fields first, str(item) as the last resort.
ExtractText(it) ==
    LET text == FieldText(ItemToPlainDict(it))
    IN  IF text # <<>> THEN text
        ELSE IF it.raises = "str" THEN <<>>
        ELSE Strip(Str(it))

\* `if not text: continue`, the other way round
KeepsAll(text) == TRUE

Keeps(text) == text # <<>>

\* One pass of the loop: nothing or one normalized item.
NormalizeItem(it) ==
    IF it.raises = "text" THEN <<>>
    ELSE LET plain == ItemToPlainDict(it)
             text == ExtractText(it)
         IN  IF ~Keeps(text) THEN <<>>
             ELSE <<[role |-> plain.role, text |-> text,
                     ts |-> IF plain.created_at # NoTs
                            THEN plain.created_at ELSE Now]>>

RECURSIVE NormalizeItems(_)
NormalizeItems(its) ==
    IF its = <<>> THEN <<>>
    ELSE NormalizeItem(Head(its)) \o NormalizeItems(Tail(its))

\* ---- _merge_transcript ----
MergeTextNoSpace(prev, text) == Strip(prev \o text)

MergeText(prev, text) == Strip(prev \o <<" ">> \o text)

RECURSIVE MergeInto(_, _)
MergeInto(merged, its) ==
    IF its = <<>> THEN merged
    ELSE LET it == Head(its)
             text == Strip(it.text)
         IN  IF text = <<>> THEN MergeInto(merged, Tail(its))
             ELSE IF merged # <<>> /\ merged[Len(merged)].role = it.role
             THEN MergeInto(
                    [merged EXCEPT ![Len(merged)] =
                        [role |-> it.role, text |-> MergeText(@.text, text),
                         ts |-> it.ts]],
                    Tail(its))
             ELSE MergeInto(
                    Append(merged,
                           [role |-> it.role, text |-> text, ts |-> it.ts]),
                    Tail(its))

MergeTranscript(its) == MergeInto(<<>>, its)

\* ---- _as_text_block ----
\* The block is a text whose role labels are single characters.
RECURSIVE AsTextBlock(_)
AsTextBlock(its) ==
    IF its = <<>> THEN <<>>
    ELSE LET it == its[Len(its)]
             \* str(role).lower() and str(role).capitalize()
             role_l == IF it.role = "SIP" THEN "sip" ELSE it.role
             pretty_role ==
                 CASE role_l = "user" -> "User"
                   [] role_l \in {"assistant", "agent"} -> "Agent"
                   [] it.role = "unknown" -> "Unknown"
                   [] it.role = "SIP" -> "Sip"
                   [] OTHER -> it.role
             text == Strip(it.text)
             lines == AsTextBlock(SubSeq(its, 1, Len(its) - 1))
         IN  IF text = <<>> THEN lines
             ELSE IF lines = <<>> THEN <<pretty_role, ":", " ">> \o text
             ELSE lines \o <<"\n", pretty_role, ":", " ">> \o text

\* ---- the inputs ----
RawItems ==
    {DictItem("user", <<"a">>, NoContent, 1),
     DictItem("user", <<" ", "b", " ">>, NoContent, 2),
     DictItem("agent", <<"c">>, NoContent, NoTs),
     DictItem("user", <<>>,
              ListContent(<<[none |-> FALSE, s |-> <<"a", " ">>],
                            [none |-> TRUE, s |-> <<>>],
                            [none |-> FALSE, s |-> <<"b">>]>>), 1),
     DictItem("agent", <<>>, StrContent(<<"c", " ">>), 2),
     DictItem("assistant", <<"c", "\n", "c", "\n">>, NoContent, 2),
     DictItem("SIP", <<"a">>, NoContent, 1),
     DictItem("user", <<" ">>, StrContent(<<"a">>), NoTs),
     DictItem("", <<>>, ListContent(<<[none |-> TRUE, s |-> <<>>]>>), NoTs),
     \* None
     RawItem("none", "", <<>>, NoContent, NoTs, <<>>, "no"),
     StrItem(<<>>),
     StrItem(<<" ">>),
     StrItem(<<"a">>),
     \* an object whose str() raises
     RawItem("object", "", <<>>, NoContent, NoTs, <<>>, "str"),
     \* a dict whose text is an object whose str() raises
     RawItem("dict", "user", <<"?">>, NoContent, NoTs, <<>>, "text")}

\* The one item a source holds, named after the source.
Of(source) == <<DictItem("user", <<source>>, NoContent, 1)>>

\* Sessions with an attached transcript only, of every content.
ItemContexts ==
    {[NoCtx EXCEPT !.attached = ListOf(l)] :
        l \in UNION {[1..n -> RawItems] : n \in 0..MaxItems}}

\* Sessions with every source in one of its forms, filled or empty.
SourceContexts ==
    LET \* an iterable object without a length that yields nothing
        EmptyIter == Container("iter", "", <<>>)
        \* an object that list() does not accept
        Uniterable == Container("uniterable", "", <<>>)
        \* a source whose access raises
        Unreadable == Container("unreadable", "", <<>>)
    IN  [attached : {Absent, Unreadable, ListOf(<<>>), ListOf(Of("attached")),
                     DictOf("items", <<>>), DictOf("items", Of("attached")),
                     DictOf("", <<>>)},
         history : {Absent, Unreadable, DictOf("items", <<>>),
                    DictOf("items", Of("history")),
                    DictOf("messages", Of("history"))},
         conversation : {Absent, Unreadable, Uniterable, EmptyIter,
                         ListOf(Of("conversation"))},
         messages : {Absent, EmptyIter, ListOf(Of("messages"))},
         agent : {Absent, DictOf("items", <<>>), DictOf("items", Of("agent")),
                  ListOf(Of("agent"))},
         file : {Absent, Unreadable, DictOf("items", <<>>),
                 DictOf("transcript", Of("file")), ListOf(Of("file"))}]

\* ---- build_end_call_payload, the transcript part ----
Stage(to, its) ==
    /\ stage' = to
    /\ items' = its
    /\ UNCHANGED <<ctx, transcript_text, registry, delivery, job>>

Collect == stage = "start" /\ Stage("collected", CollectRawTranscriptItems(ctx))

Normalize == stage = "collected" /\ Stage("normalized", NormalizeItems(items))

Merge == stage = "normalized" /\ Stage("merged", MergeTranscript(items))

\* _merge_transcript applied to its own result
MergeAgain == stage = "merged" /\ Stage("merged_again", MergeTranscript(items))

Render ==
    /\ stage = "merged"
    /\ stage' = "rendered"
    /\ transcript_text' = AsTextBlock(items)
    /\ UNCHANGED <<ctx, items, registry, delivery, job>>

TranscriptInit ==
    /\ RegistryAtRest
    /\ DeliveryAtRest
    /\ ctx \in ItemContexts \cup SourceContexts
    /\ stage = "start"
    /\ items = <<>>
    /\ transcript_text = <<>>
    /\ job = NoJob

TranscriptNext == Collect \/ Normalize \/ Merge \/ MergeAgain \/ Render

TranscriptSpec == TranscriptInit /\ [][TranscriptNext]_vars

\* ============================================================ the agent job
\* (agent.py, egress_manager.py)
\* The most stop_recording calls of a job.
MaxStops == 3

\* MIN_SESSION_SECONDS_FOR_REPORT, its default
min_duration == 5

\* ---- _send_shutdown_report ----
\* any(m.get("role") == "user" and (m.get("text") or "").strip() for m in
\* messages): "true", "false", or "raised" when a message is no dict or its
\* text no string before a user message with text was found.
RECURSIVE HasUserActivity(_)
HasUserActivity(messages) ==
    IF messages = <<>> THEN "false"
    ELSE LET m == Head(messages)
         IN  IF m.kind # "dict" THEN "raised"
             ELSE IF m.role = "user" /\ m.text # <<>>
             THEN IF m.raises = "text" THEN "raised"
                  ELSE IF Strip(m.text) # <<>> THEN "true"
                  ELSE HasUserActivity(Tail(messages))
             ELSE HasUserActivity(Tail(messages))

\* What the callback comes to: "no_url", "raised" (the handler around the
\* body), "skipped" (the gate) or "sent" (send_end_call_report was awaited).
ShutdownReport(j) ==
    IF ~j.url THEN "no_url"
    ELSE IF j.history.shape # "dict" THEN "raised"
    ELSE LET duration_ok == j.duration >= min_duration
             messages == IF j.history.key = "messages" THEN j.history.val
                         ELSE <<>>
             has_user_activity == HasUserActivity(messages)
         IN  IF has_user_activity = "raised" THEN "raised"
             ELSE IF ~(duration_ok \/ has_user_activity = "true")
             THEN "skipped"
             ELSE "sent"

SendShutdownReport ==
    /\ job.report = "pending"
    /\ job' = [job EXCEPT !.report = ShutdownReport(job),
                          !.reports = IF ShutdownReport(job) = "sent"
                                      THEN @ + 1 ELSE @]
    /\ UNCHANGED <<registry, delivery, aggregator>>

\* ---- EgressManager.stop_recording ----
\* A call of stop_recording: who made it, where it stands, what the egress
\* service answered and what it returned.
StopCall(origin) ==
    [origin |-> origin, pc |-> "created", answer |-> "none",
     result |-> "none"]

\* Mutant: the error of an egress that is already complete counts as a
\* failure.
ResultOfAnyErrorFalse(answer) ==
    IF answer \in {"no_egress", "returned"} THEN "true" ELSE "false"

\* The value returned after the service's answer: no active egress, the
\* request returned, it raised "EGRESS_COMPLETE cannot be stopped", or it
\* raised another error.
ResultOf(answer) ==
    IF answer \in {"no_egress", "returned", "complete"} THEN "true"
    ELSE "false"

\* The call's done callback: background_tasks.discard(task)
Done(j, i, answer) ==
    [j EXCEPT !.calls[i] = [@ EXCEPT !.pc = "done", !.answer = answer,
                                     !.result = ResultOf(answer)],
              !.background_tasks = @ \ {i}]

\* From the start of the coroutine to its first await or its return.
StopRecordingStart(j, i) ==
    IF ~j.manager.lkapi \/ ~j.manager.egress_id
    THEN Done(j, i, "no_egress")
    ELSE [j EXCEPT !.calls[i].pc = "await_stop",
                   !.stops = Append(@, [by |-> i, egress |-> j.egress])]

\* ---- the handlers ----
\* Mutant: the task is created and not added to the set.
SpawnedUntracked(j, origin) ==
    IF j.manager.present
    THEN [j EXCEPT !.calls = Append(@, StopCall(origin))]
    ELSE j

\* asyncio.create_task(egress_manager.stop_recording()), background_tasks.add
Spawned(j, origin) ==
    IF j.manager.present
    THEN [j EXCEPT !.calls = Append(@, StopCall(origin)),
                   !.background_tasks = @ \cup {Len(j.calls) + 1}]
    ELSE j

\* A handler runs; one of the calls is left to the shutdown callback.
Handles(j) ==
    /\ job.manager.present
          => Len(job.calls) < (IF job.shutdown = "idle" THEN MaxStops - 1
                               ELSE MaxStops)
    /\ job' = j
    /\ UNCHANGED <<registry, delivery, aggregator>>

OnSessionClose ==
    /\ ~job.closed
    /\ Handles([Spawned(job, "close") EXCEPT !.closed = TRUE])

\* last: no participant other than agents is left in the room
OnParticipantDisconnected(last) ==
    /\ Handles(IF last THEN Spawned(job, "disconnected") ELSE job)

\* The loop runs a task that was created.
TaskStarts(i) ==
    /\ i \in DOMAIN job.calls
    /\ job.calls[i].pc = "created"
    /\ job' = StopRecordingStart(job, i)
    /\ UNCHANGED <<registry, delivery, aggregator>>

\* The shutdown callback goes on after its own stop_recording:
\* egress_manager.cleanup() closes the API client.
AfterStop(j, i) ==
    IF j.calls[i].origin = "shutdown" /\ j.calls[i].pc = "done"
    THEN [j EXCEPT !.shutdown = "done"]
    ELSE j

StopEgressReturns(i) ==
    /\ i \in DOMAIN job.calls
    /\ job.calls[i].pc = "await_stop"
    /\ job.egress = "active"
    /\ job' = AfterStop([Done(job, i, "returned") EXCEPT !.egress = "complete"],
                        i)
    /\ UNCHANGED <<registry, delivery, aggregator>>

\* The service refuses to stop a complete egress ("complete"), or the request
\* fails for another reason ("other").
StopEgressRaises(i, error) ==
    /\ i \in DOMAIN job.calls
    /\ job.calls[i].pc = "await_stop"
    /\ error = "complete" => job.egress = "complete"
    /\ job' = AfterStop(Done(job, i, error), i)
    /\ UNCHANGED <<registry, delivery, aggregator>>

\* The egress ends by itself, e.g. when the room is closed.
EgressEnds ==
    /\ job.egress = "active"
    /\ job' = [job EXCEPT !.egress = "complete"]
    /\ UNCHANGED <<registry, delivery, aggregator>>

\* _cleanup_resources_on_shutdown, the egress part. No code sets _is_stopped,
\* so hasattr(egress_manager, "_is_stopped") is false.
CleanupResourcesOnShutdown ==
    /\ job.shutdown = "idle"
    /\ LET has_is_stopped == FALSE
           i == Len(job.calls) + 1
       IN  job' = IF ~job.manager.present THEN [job EXCEPT !.shutdown = "done"]
                  ELSE IF ~has_is_stopped
                  THEN AfterStop(
                         StopRecordingStart(
                           [job EXCEPT !.shutdown = "stopping",
                                       !.calls = Append(@, StopCall("shutdown"))],
                           i),
                         i)
                  ELSE [job EXCEPT !.shutdown = "done"]
    /\ UNCHANGED <<registry, delivery, aggregator>>

\* ---- the jobs ----
\* The messages of a history export.
GateMessages ==
    {DictItem("user", <<"a">>, NoContent, 1),
     DictItem("user", <<" ">>, NoContent, 1),
     DictItem("agent", <<"c">>, NoContent, 1),
     DictItem("user", <<>>,
              ListContent(<<[none |-> FALSE, s |-> <<"a">>]>>), 1),
     RawItem("none", "", <<>>, NoContent, NoTs, <<>>, "no"),
     RawItem("dict", "user", <<"?">>, NoContent, NoTs, <<>>, "text")}

\* Jobs at shutdown, for the report: with or without URL, short or long, with
\* every history of up to two messages under either key.
ReportJobs ==
    {[NoJob EXCEPT !.url = u, !.duration = d, !.history = h] :
        u \in BOOLEAN, d \in {2, min_duration},
        h \in {Container("unreadable", "", <<>>)}
               \cup {DictOf(k, l) :
                        k \in {"items", "messages"},
                        l \in UNION {[1..n -> GateMessages] : n \in 0..2}}}

\* Jobs after _maybe_start_egress: no manager, a manager whose recording was
\* not started, a manager with an active egress.
EgressJobs ==
    {NoJob,
     [NoJob EXCEPT !.manager = [present |-> TRUE, lkapi |-> FALSE,
                                egress_id |-> FALSE]],
     [NoJob EXCEPT !.manager = [present |-> TRUE, lkapi |-> TRUE,
                                egress_id |-> TRUE],
                   !.egress = "active"]}

JobInit ==
    /\ RegistryAtRest
    /\ DeliveryAtRest
    /\ AggregatorAtRest
    /\ job \in ReportJobs \cup EgressJobs

JobNext ==
    \/ SendShutdownReport
    \/ OnSessionClose
    \/ \E last \in BOOLEAN : OnParticipantDisconnected(last)
    \/ \E i \in 1..MaxStops : TaskStarts(i)
    \/ \E i \in 1..MaxStops : StopEgressReturns(i)
    \/ \E i \in 1..MaxStops, error \in {"complete", "other"} :
          StopEgressRaises(i, error)
    \/ EgressEnds
    \/ CleanupResourcesOnShutdown

JobSpec == JobInit /\ [][JobNext]_vars

\* ================================================================ claims
\* What a step did to the tasks: x was just called (the bag grew by x), or a
\* suspended task went on and now stands at x.
Arrived(x) == CopiesIn(x, tasks') > CopiesIn(x, tasks)

Called(x) ==
    Arrived(x) /\ BagCardinality(tasks') > BagCardinality(tasks)

Resumed(x) ==
    Arrived(x) /\ BagCardinality(tasks') = BagCardinality(tasks)

\* x is where a create operation stands right after its provisioning await.
Provisioning(x) ==
    /\ Resumed(x)
    /\ x.op \in CreateOps
    /\ \E y \in BagToSet(tasks) :
          /\ CopiesIn(y, tasks') < CopiesIn(y, tasks)
          /\ y.pc = "await_create"
          /\ y.rec = x.rec

Records == 1..Len(heap)

ActiveRecs(ac) == {ac[i].rec : i \in 1..Len(ac)}

Terminal == {COMPLETED, FAILED, BUSY, NO_ANSWER}

\* The edges of the call state machine of the specification.
Edges ==
    {<<INITIATED, RINGING>>, <<INITIATED, CONNECTED>>, <<INITIATED, FAILED>>,
     <<RINGING, CONNECTED>>, <<RINGING, FAILED>>, <<RINGING, BUSY>>,
     <<RINGING, NO_ANSWER>>, <<CONNECTED, COMPLETED>>, <<CONNECTED, FAILED>>}

CallEndedCount(wh, r) ==
    LET S == {p \in BagToSet(wh) : p.event_type = "call_ended" /\ p.rec = r}
        RECURSIVE Sum(_)
        Sum(T) == IF T = {} THEN 0
                  ELSE LET p == CHOOSE q \in T : TRUE
                       IN  CopiesIn(p, wh) + Sum(T \ {p})
    IN  Sum(S)

\* C1: no two active calls share a call id: the id under which a create
\* operation stores its record is not the id of a call already active, so a
\* store never replaces the record an active id refers to.
C1_StoreNeverOverwrites ==
    [][\A i \in 1..Len(active_calls) :
          Has(active_calls', active_calls[i].call_id)
              => Get(active_calls', active_calls[i].call_id) = active_calls[i].rec
      ]_vars

\* C2: once a record's status is COMPLETED, FAILED, BUSY or NO_ANSWER, an
\* update_call_status on it changes nothing of its status and raises nothing.
C2_TerminalRejectsUpdate ==
    [][\A x \in BagToSet(tasks') :
          (Called(x) /\ x.op = "update_call_status")
              => /\ x.result \in {"true", "false"}
                 /\ \A r \in Records :
                       heap[r].status \in Terminal
                           => heap'[r].status = heap[r].status
      ]_vars

\* C3: every change of a record's status, by whatever operation, follows an
\* edge of the state machine.
C3_StatusFollowsEdges ==
    [][\A r \in Records :
          heap'[r].status # heap[r].status
              => <<heap[r].status, heap'[r].status>> \in Edges
      ]_vars

\* C4: for every call, end_call moves it to COMPLETED at most once, assigns
\* its end_time at most once and dispatches at most one call_ended
\* notification, also when two end_call operations for its id interleave.
C4_TerminatedAtMostOnce ==
    [][(\A x \in BagToSet(tasks') : Arrived(x) => x.op \in EndOps)
          => \A r \in Records :
                /\ heap[r].end_time # NoTime
                       => heap'[r].end_time = heap[r].end_time
                /\ CallEndedCount(webhooks', r) <= 1
      ]_vars

\* C5: end_call on an active id sets COMPLETED, end_time and
\* duration_seconds, dispatches call_ended carrying the completed status and
\* the end_time while the record is still in the active set, then removes the
\* record and returns true.
C5_EndCallTerminatesInOrder ==
    [][/\ \A x \in BagToSet(tasks') :
             (Arrived(x) /\ x.op = "end_call" /\ x.pc = "done" /\ x.rec # 0)
                 => /\ x.result = "true"
                    /\ heap'[x.rec].end_time # NoTime
                    /\ heap'[x.rec].duration_seconds # NoTime
                    /\ x.rec \notin ActiveRecs(active_calls')
                    /\ webhook_url # None
                           => \E p \in BagToSet(webhooks') :
                                 /\ p.event_type = "call_ended"
                                 /\ p.rec = x.rec
                                 /\ p.status = COMPLETED
                                 /\ p.end_time # NoTime
       /\ \A p \in BagToSet(webhooks') :
             (CopiesIn(p, webhooks') > CopiesIn(p, webhooks)
                  /\ p.event_type = "call_ended")
                 => /\ p.status = COMPLETED
                    /\ p.rec \in ActiveRecs(active_calls')
      ]_vars

\* C6: end_call on an id that is not active returns false at once, and no
\* request is made, no notification dispatched, no record changed.
C6_EndCallUnknownNoEffect ==
    [][\A x \in BagToSet(tasks') :
          (Called(x) /\ x.op = "end_call" /\ ~Has(active_calls, x.call_id))
              => /\ x.pc = "done"
                 /\ x.result = "false"
                 /\ UNCHANGED <<active_calls, heap, webhooks, lkapi_log>>
      ]_vars

C6_Witness ==
    \E tk \in TaskSet :
        /\ tk.op = "end_call"
        /\ tk.pc = "done"
        /\ tk.rec = 0
        /\ tk.result = "false"
        /\ active_calls # <<>>

\* C7: when the remove-participant call raises, end_call still terminates the
\* call: COMPLETED and end_time, the call_ended notification, the removal,
\* the result true.
C7_RemoveFailureDoesNotBlock ==
    [][\A x \in BagToSet(tasks') :
          (Arrived(x) /\ x.op = "end_call" /\ x.io = "raised")
              => /\ heap'[x.rec].status = COMPLETED
                 /\ heap'[x.rec].end_time # NoTime
                 /\ webhook_url # None => CallEndedCount(webhooks', x.rec) >= 1
                 /\ x.pc = "done"
                        => /\ x.result = "true"
                           /\ x.rec \notin ActiveRecs(active_calls')
      ]_vars

\* C8 as stated: the provisioning call's return gives the record the
\* provisioned status and the participant id, and when the create operation
\* returns its record the call is in the active set.
C8_ActiveWhenCreateReturns ==
    [][\A x \in BagToSet(tasks') :
          /\ (Provisioning(x) /\ x.io = "returned")
                => /\ heap'[x.rec].status =
                          IF x.op = "make_outbound_call" THEN RINGING
                          ELSE CONNECTED
                   /\ heap'[x.rec].sip_participant_id = x.sip
          /\ (Arrived(x) /\ x.op \in CreateOps /\ x.pc = "done"
                 /\ x.result = "record")
                => Has(active_calls', x.call_id)
      ]_vars

\* C8, amended: when the provisioning call returns, the record goes from
\* INITIATED to RINGING (outbound) or CONNECTED (inbound), takes the
\* participant id returned and is in the active set, under its id, before the
\* start notification is awaited.
C8_ProvisionedAndStored ==
    [][\A x \in BagToSet(tasks') :
          (Provisioning(x) /\ x.io = "returned")
              => /\ heap[x.rec].status = INITIATED
                 /\ heap'[x.rec].status =
                        IF x.op = "make_outbound_call" THEN RINGING ELSE CONNECTED
                 /\ heap'[x.rec].sip_participant_id = x.sip
                 /\ x.sip \in ParticipantIds
                 /\ Has(active_calls', x.call_id)
                 /\ Get(active_calls', x.call_id) = x.rec
      ]_vars

C8_Witness ==
    /\ \E tk \in TaskSet :
          /\ tk.op = "make_outbound_call"
          /\ tk.io = "returned"
          /\ heap[tk.rec].status = RINGING
          /\ tk.rec \in ActiveRecs(active_calls)
    /\ \E tk \in TaskSet :
          /\ tk.op = "handle_inbound_call"
          /\ tk.io = "returned"
          /\ heap[tk.rec].status = CONNECTED
          /\ tk.rec \in ActiveRecs(active_calls)

\* C9: when the provisioning call raises, the record is FAILED with its
\* end_time recorded and the create operation ends by raising.
C9_ProvisioningFailureRaises ==
    \A tk \in TaskSet :
        (tk.op \in CreateOps /\ tk.io = "raised")
            => /\ tk.pc = "done"
               /\ tk.result = "raised"
               /\ heap[tk.rec].status = FAILED
               /\ heap[tk.rec].end_time # NoTime
               /\ heap[tk.rec].end_time >= heap[tk.rec].start_time

C9_Witness ==
    /\ \E tk \in TaskSet : tk.op = "handle_inbound_call" /\ tk.io = "raised"
    /\ \E tk \in TaskSet : tk.op = "make_outbound_call" /\ tk.io = "raised"

\* C10: without the trunk of the requested direction a create operation
\* raises its configuration error at once: no provisioning request, no
\* notification, the active set and every record as they were.
C10_MissingTrunkFailsFirst ==
    [][\A x \in BagToSet(tasks') :
          (Called(x) /\ x.op \in CreateOps /\ TrunkFor(x.dir) = None)
              => /\ x.pc = "done"
                 /\ x.result = "ValueError"
                 /\ UNCHANGED <<active_calls, heap, webhooks, lkapi_log>>
      ]_vars

C10_Witness ==
    /\ \E tk \in TaskSet : tk.op \in CreateOps /\ tk.result = "ValueError"
    /\ active_calls # <<>>

IsPrefix(s, t) == Len(s) <= Len(t) /\ SubSeq(t, 1, Len(s)) = s

SyncOps == {"update_call_status", "add_call_transcript"}

\* C11: update_call_status and add_call_transcript called with an id that is
\* not in the active set (never created, or already ended) return false at
\* once, raise nothing, and change no record, nor the active set, nor any log.
C11_UnknownIdNoEffect ==
    [][\A x \in BagToSet(tasks') :
          (Called(x) /\ x.op \in SyncOps /\ ~Has(active_calls, x.call_id))
              => /\ x.pc = "done"
                 /\ x.result = "false"
                 /\ UNCHANGED <<active_calls, heap, webhooks, lkapi_log, clock>>
      ]_vars

\* A status update for a call that an end_call has removed, and a transcript
\* entry for an id that never was.
C11_Witness ==
    /\ \E u \in TaskSet, e \in TaskSet :
          /\ u.op = "update_call_status"
          /\ u.result = "false"
          /\ e.op = "end_call"
          /\ e.result = "true"
          /\ e.call_id = u.call_id
    /\ active_calls = <<>>

\* C12: update_call_status on an active id sets the status given, writes each
\* extra field named like an attribute into that attribute and each other
\* one into the metadata mapping, returns true and leaves every other record
\* and the active set as they were.
C12_UpdateWritesFields ==
    [][\A x \in BagToSet(tasks') :
          (Called(x) /\ x.op = "update_call_status"
               /\ Has(active_calls, x.call_id))
              => LET r == Get(active_calls, x.call_id)
                     kwargs == x.args[2]
                 IN  /\ x.pc = "done"
                     /\ x.result = "true"
                     /\ heap'[r].status = x.args[1]
                     /\ \A i \in DOMAIN kwargs :
                           IF kwargs[i].key \in Attributes
                           THEN heap'[r][kwargs[i].key] = kwargs[i].value
                           ELSE /\ kwargs[i].key \in DOMAIN heap'[r].metadata
                                /\ heap'[r].metadata[kwargs[i].key]
                                       = kwargs[i].value
                     /\ \A q \in Records \ {r} : heap'[q] = heap[q]
                     /\ UNCHANGED <<active_calls, webhooks, lkapi_log>>
      ]_vars

\* An update with an attribute and a metadata field, while two records exist.
C12_Witness ==
    /\ \E u \in TaskSet :
          /\ u.op = "update_call_status"
          /\ u.result = "true"
          /\ Len(u.args[2]) = 2
          /\ "note" \in DOMAIN heap[u.rec].metadata
    /\ Len(heap) = 2

\* C13: once a record is created, no operation changes its call_id or its
\* direction.
C13_IdAndDirectionImmutable ==
    [][\A r \in Records :
          /\ heap'[r].call_id = heap[r].call_id
          /\ heap'[r].direction = heap[r].direction
      ]_vars

\* C14: every operation leaves each record's transcript a prefix of what it
\* is afterwards, and add_call_transcript on an active id appends exactly the
\* entry given.
C14_TranscriptAppendOnly ==
    [][/\ \A r \in Records : IsPrefix(heap[r].transcript, heap'[r].transcript)
       /\ \A x \in BagToSet(tasks') :
             (Called(x) /\ x.op = "add_call_transcript"
                  /\ Has(active_calls, x.call_id))
                 => LET r == Get(active_calls, x.call_id)
                    IN  /\ x.result = "true"
                        /\ heap'[r].transcript
                               = Append(heap[r].transcript, x.args[1])
      ]_vars

\* round(): the elapsed time in clock units to the nearest second, a half to
\* the even neighbour.
RoundedSeconds(start, end) ==
    LET q == (end - start) \div UnitsPerSec
        m == (end - start) % UnitsPerSec
    IN  IF 2 * m < UnitsPerSec THEN q
        ELSE IF 2 * m > UnitsPerSec THEN q + 1
        ELSE IF q % 2 = 0 THEN q ELSE q + 1

\* C15: a record that end_call has given its end_time and duration_seconds
\* has duration_seconds = round(end_time - start_time), in seconds.
C15_DurationIsRounded ==
    [][\A x \in BagToSet(tasks') :
          (Arrived(x) /\ x.op \in EndOps /\ x.rec # 0
               /\ heap'[x.rec].end_time # heap[x.rec].end_time
               /\ heap'[x.rec].start_time # NoTime)
              => heap'[x.rec].duration_seconds
                    = RoundedSeconds(heap'[x.rec].start_time,
                                     heap'[x.rec].end_time)
      ]_vars

\* C16: in every state every record has duration_seconds exactly when it has
\* both start_time and end_time.
C16_DurationIffBothTimes ==
    \A r \in Records :
        (heap[r].duration_seconds # NoTime)
            <=> (heap[r].start_time # NoTime /\ heap[r].end_time # NoTime)

\* C17: when cleanup returns, none of the calls that were active when it was
\* invoked is in the active set, and with a webhook URL a call_ended
\* notification was dispatched for each, whether their remove-participant
\* calls returned or raised.
C17_CleanupEndsEveryCall ==
    [][\A x \in BagToSet(tasks') :
          (Arrived(x) /\ x.op = "cleanup" /\ x.pc = "done")
              => \A i \in DOMAIN x.ended :
                    /\ ~Has(active_calls', x.ended[i].call_id)
                    /\ webhook_url # None
                           => \E p \in BagToSet(webhooks') :
                                 /\ p.event_type = "call_ended"
                                 /\ p.call_id = x.ended[i].call_id
      ]_vars

\* C18: a cleanup that was invoked returns, also when a remove-participant
\* call never comes back.
C18_CleanupCompletes ==
    (\E tk \in TaskSet : tk.op = "cleanup" /\ tk.pc # "done")
        ~> (\A tk \in TaskSet : tk.op = "cleanup" => tk.pc = "done")

\* A step takes one task y from where it stood to where x stands.
Left(y) == CopiesIn(y, tasks') < CopiesIn(y, tasks)

FailedOutcomes == {"rejected", "exception"}

\* The POSTs issued for one event of one record.
EventCount(wh, r, event) ==
    LET S == {p \in BagToSet(wh) : p.event_type = event /\ p.rec = r}
        RECURSIVE Sum(_)
        Sum(T) == IF T = {} THEN 0
                  ELSE LET p == CHOOSE q \in T : TRUE
                       IN  CopiesIn(p, wh) + Sum(T \ {p})
    IN  Sum(S)

\* The event whose POST task y is waiting for.
AwaitedEvent(y) == IF y.op \in CreateOps THEN StartEvent(y.dir) ELSE "call_ended"

\* C19: when the POST of a notification ends with a status of 400 or more or
\* with an exception, the operation that fired it goes on as after a
\* delivery: the create operation returns its record, with the record and
\* the active set as they were; end_call removes the call (if its id is
\* still active), leaves the record as it is and returns true.
C19_DeliveryFailureAbsorbed ==
    [][\A y \in BagToSet(tasks), x \in BagToSet(tasks') :
          (Left(y) /\ Resumed(x) /\ y.pc = "await_webhook"
               /\ x.hook \in FailedOutcomes)
              => /\ y.op \in CreateOps
                        => /\ x.pc = "done"
                           /\ x.result = "record"
                           /\ UNCHANGED <<active_calls, heap>>
                 /\ (y.op \in EndOps /\ Has(active_calls, y.call_id))
                        => /\ ~Has(active_calls', y.call_id)
                           /\ heap'[y.rec] = heap[y.rec]
                           /\ y.op = "end_call"
                                  => x.pc = "done" /\ x.result = "true"
                           /\ y.op = "cleanup"
                                  => x.ended[Len(y.ended) + 1]
                                        = [call_id |-> y.call_id,
                                           result |-> "true"]
      ]_vars

\* A create operation whose notification was rejected returned its record,
\* and an end_call whose notification met an exception returned true.
C19_Witness ==
    \E c \in TaskSet, e \in TaskSet :
        /\ c.op \in CreateOps
        /\ c.hook = "rejected"
        /\ c.result = "record"
        /\ e.op = "end_call"
        /\ e.hook = "exception"
        /\ e.result = "true"
        /\ e.rec = c.rec

\* C20: one invocation of _send_call_webhook issues at most one request: no
\* step adds more than one POST, the step that ends a POST, whatever its
\* outcome, adds none for the same event of the same record, and a record's
\* start event is posted at most once.
C20_OneAttemptPerEvent ==
    [][/\ BagCardinality(webhooks') <= BagCardinality(webhooks) + 1
       /\ \A y \in BagToSet(tasks) :
             (Left(y) /\ y.pc = "await_webhook")
                 => EventCount(webhooks', y.rec, AwaitedEvent(y))
                       = EventCount(webhooks, y.rec, AwaitedEvent(y))
       /\ \A r \in 1..Len(heap') :
             /\ EventCount(webhooks', r, "call_started") <= 1
             /\ EventCount(webhooks', r, "call_initiated") <= 1
      ]_vars

\* Both kinds of failed delivery are over, each with its one POST.
C20_Witness ==
    \E c \in TaskSet, e \in TaskSet :
        /\ c.op \in CreateOps
        /\ c.hook = "exception"
        /\ EventCount(webhooks, c.rec, StartEvent(c.dir)) = 1
        /\ e.op = "end_call"
        /\ e.hook = "rejected"
        /\ e.rec = c.rec
        /\ EventCount(webhooks, e.rec, "call_ended") = 1

\* ------------------------------------------------------- delivery claims
Requests(log) == SelectSeq(log, LAMBDA e : e.kind = "request")

Sleeps(log) == SelectSeq(log, LAMBDA e : e.kind = "sleep")

\* The part of the log that belongs to the current attempt.
ThisAttempt(log) ==
    LET idx == {i \in 1..Len(log) : log[i].kind = "sleep"}
    IN  IF idx = {} THEN log
        ELSE SubSeq(log, (CHOOSE i \in idx : \A j \in idx : j <= i) + 1,
                    Len(log))

\* The step is the receiver's answer to the request in flight.
Answered == sender.pc = "await_post" /\ sender'.io = "returned"

\* The step ends the reading of a response's body.
BodyRead == sender.pc = "await_text" /\ sender'.io = "returned"

\* The step is an exception inside an attempt.
Excepted == sender.pc \in {"await_post", "await_text"} /\ sender'.io = "raised"

\* C21: on every notification path each request is a POST carrying the
\* JSON body, also the request that follows a redirect.
C21_EveryPathRepostsAsPost ==
    \A i \in 1..Len(io_log) :
        io_log[i].kind = "request"
            => io_log[i].method = "POST" /\ io_log[i].body = "payload"

\* C22: in _post_json_with_redirects a redirect response with a Location,
\* within the hop limit, is released and then followed by exactly one
\* request, a POST with the original payload and headers to that Location;
\* any other response is followed by no request; so when a non-redirect
\* response ends the chain there was one POST per response.
C22_RedirectPreservingPost ==
    [][(Answered /\ sender.path # EventPath)
          => LET r == sender'.resp
             IN  /\ (r.status \in RedirectStatuses /\ r.location # None
                         /\ sender.hop < max_redirects)
                        => /\ io_log' = io_log
                                  \o <<Release(sender.current_url),
                                       [kind |-> "request", method |-> "POST",
                                        url |-> r.location, body |-> "payload",
                                        headers |-> "json", units |-> 0]>>
                           /\ sender'.pc = "await_post"
                           /\ sender'.hop = sender.hop + 1
                 /\ r.status \notin RedirectStatuses
                        => /\ Requests(io_log') = Requests(io_log)
                           /\ sender'.pc # "await_post"
                           /\ Len(Requests(ThisAttempt(io_log')))
                                  = sender.hop + 1
                           /\ \A e \in {Requests(io_log')[i] :
                                           i \in 1..Len(Requests(io_log'))} :
                                  /\ e.method = "POST"
                                  /\ e.body = "payload"
                                  /\ e.headers = "json"
      ]_vars

\* One redirect, then 200: the report took exactly two POSTs, the second to
\* the Location.
C22_Witness ==
    /\ sender.path = ReportPath
    /\ sender.pc = "done"
    /\ sender.hop = 1
    /\ io_log = <<PostRequest(Target), Release(Target), PostRequest("/final"),
                  Outcome("response", 200)>>

\* C23: _post_json_with_redirects makes at most max_redirects + 1 requests,
\* and hands back the redirect response itself, with no further request,
\* when the hops are used up or the redirect has no Location.
C23_HopLimit ==
    [][/\ sender'.path # EventPath
          => Len(Requests(ThisAttempt(io_log'))) <= max_redirects + 1
       /\ (Answered /\ sender.path # EventPath
              /\ sender'.resp.status \in RedirectStatuses
              /\ (sender'.resp.location = None \/ sender.hop = max_redirects))
             => /\ Requests(io_log') = Requests(io_log)
                /\ sender'.pc = "await_text"
                /\ io_log'[Len(io_log')]
                       = Outcome("response", sender'.resp.status)
                /\ sender'.resp.location = None
                       => io_log' = Append(io_log, io_log'[Len(io_log')])
      ]_vars

\* Four redirects in a row: four requests, and the fourth redirect is what
\* the caller gets.
C23_Witness ==
    /\ sender.path = "confirm_and_send_appointment"
    /\ sender.pc = "await_text"
    /\ sender.attempt = 1
    /\ sender.hop = max_redirects
    /\ sender.resp.status = 302
    /\ sender.resp.location # None
    /\ Len(Requests(io_log)) = max_redirects + 1

\* C24: the appointment tools make at most 3 attempts; after a response whose
\* body was read they go round again only if its status is 500-599 and an
\* attempt is left; a 2xx response ends them at once with success, a 4xx at
\* once with an error, neither followed by a wait or a request.
C24_RetryOnlyOnServerError ==
    [][(sender'.path \in RetryPaths /\ sender'.attempt > 0)
          => /\ sender'.attempt <= max_retries
             /\ Len(Sleeps(io_log')) = sender'.attempt - 1
                    \/ (sender'.pc = "await_sleep"
                           /\ Len(Sleeps(io_log')) = sender'.attempt)
             /\ BodyRead
                    => IF Retryable(sender.resp.status)
                          /\ sender.attempt < max_retries
                       THEN sender'.pc = "await_sleep"
                       ELSE /\ sender'.pc = "done"
                            /\ sender'.result.message = "failed_status"
                            /\ io_log' = io_log
             /\ (sender'.pc = "await_sleep" /\ sender.pc # "await_sleep")
                    => \/ Excepted
                       \/ BodyRead /\ sender.resp.status \in 500..599
             /\ (Answered /\ sender'.resp.status \in 200..299)
                    => /\ sender'.pc = "done"
                       /\ sender'.result.message = "submitted"
                       /\ Requests(io_log') = Requests(io_log)
                       /\ Sleeps(io_log') = Sleeps(io_log)
             /\ (Answered /\ sender'.resp.status \in 400..499)
                    => /\ sender'.pc = "await_text"
                       /\ Requests(io_log') = Requests(io_log)
                       /\ Sleeps(io_log') = Sleeps(io_log)
      ]_vars

\* 500, 500, 200: three attempts, then success.
C24_Witness ==
    /\ sender.path = "confirm_and_send_appointment"
    /\ sender.pc = "done"
    /\ sender.result.status = "ok"
    /\ io_log = <<PostRequest(Target), Outcome("response", 500),
                  Sleep(backoff_seconds),
                  PostRequest(Target), Outcome("response", 500),
                  Sleep(2 * backoff_seconds),
                  PostRequest(Target), Outcome("response", 200)>>

\* C25: an exception in an attempt of the appointment tools is followed by
\* another attempt while fewer than 3 were made; whatever the receiver and
\* the network do, the tool comes to an end, and it ends with a result, never
\* with an exception: confirm_and_send_appointment with a mapping of status
\* ok or error and a message.
C25_ExceptionsRetriedAndContained ==
    /\ [][(Excepted /\ sender.path \in RetryPaths)
             => IF sender.attempt < max_retries
                THEN sender'.pc = "await_sleep"
                ELSE /\ sender'.pc = "done"
                     /\ sender'.result.message = "network_error"
         ]_vars
    /\ [](sender.attempt <= max_retries)
    /\ []((sender.pc = "done" /\ sender.path \in RetryPaths)
             => /\ sender.result.shape \in {"dict", "str"}
                /\ sender.result.message # None
                /\ sender.path = "confirm_and_send_appointment"
                       => /\ sender.result.shape = "dict"
                          /\ sender.result.status \in {"ok", "error"})
    /\ <>(sender.pc = "done")

\* Three exceptions in a row: three attempts, then the network error as the
\* result.
C25_Witness ==
    /\ sender.path = "confirm_and_send_appointment"
    /\ sender.pc = "done"
    /\ sender.result = [shape |-> "dict", status |-> "error",
                        message |-> "network_error"]
    /\ io_log = <<PostRequest(Target), Outcome("exception", 0),
                  Sleep(backoff_seconds),
                  PostRequest(Target), Outcome("exception", 0),
                  Sleep(2 * backoff_seconds),
                  PostRequest(Target), Outcome("exception", 0)>>

\* C26: the wait after failed attempt n is n times the base delay of 0.75 s
\* (3 quarter seconds), there are at most two waits, and a step that ends the
\* tool (the final attempt, a response that is not retried) adds none.
C26_LinearBackoff ==
    [][sender'.path \in RetryPaths
          => LET naps == Sleeps(io_log')
             IN  /\ Len(naps) <= 2
                 /\ \A n \in 1..Len(naps) : naps[n].units = n * 3
                 /\ sender'.pc = "done" => Sleeps(io_log') = Sleeps(io_log)
                 /\ Len(naps) > Len(Sleeps(io_log))
                        => /\ naps[Len(naps)].units = 3 * sender.attempt
                           /\ io_log'[Len(io_log')].kind = "sleep"
                           /\ sender.attempt < 3
      ]_vars

\* Both waits were made, 0.75 s and 1.5 s, and the third attempt is out.
C26_Witness ==
    /\ sender.path \in RetryPaths
    /\ sender.attempt = 3
    /\ Sleeps(io_log) = <<Sleep(3), Sleep(6)>>

\* C27: the end-of-session report is not given up after a 5xx response or an
\* exception before 3 attempts were made.
C27_ReportIsRetried ==
    (sender.path = ReportPath /\ sender.pc = "done"
        /\ \E i \in 1..Len(io_log) :
              \/ io_log[i].kind = "exception"
              \/ io_log[i].kind = "response" /\ io_log[i].units \in 500..599)
        => Len(SelectSeq(io_log, LAMBDA e : e.kind = "request"
                                            /\ e.url = Target)) = 3

\* ---- the transcript aggregator ----
\* What a source holds, whatever the search makes of it.
Readable(c) == c.shape \notin {"none", "unreadable", "uniterable"}

AttachedItems ==
    IF Readable(ctx.attached) THEN EnsureListFromMaybeItems(ctx.attached)
    ELSE <<>>

HistoryItems == FromHistory(ctx.history).items

LiveItems ==
    IF ctx.conversation.shape = "unreadable" THEN <<>>
    ELSE IF Readable(ctx.conversation) /\ ctx.conversation.val # <<>>
    THEN ctx.conversation.val
    ELSE IF Readable(ctx.messages) THEN ctx.messages.val
    ELSE <<>>

FileItems == FromFile(ctx.file).items

\* C28: the collector returns the items of the first non-empty source in
\* the order attached transcript, history export, live conversation/message
\* accessor, persisted file; it returns nothing only if all four are empty.
C28_FirstNonEmptyOfFourSources ==
    stage = "collected"
        => items = IF AttachedItems # <<>> THEN AttachedItems
                   ELSE IF HistoryItems # <<>> THEN HistoryItems
                   ELSE IF LiveItems # <<>> THEN LiveItems
                   ELSE FileItems

\* The raw items text can be taken from, by their places in the list.
KeptPlaces(raw) ==
    SelectSeq([i \in 1..Len(raw) |-> i],
              LAMBDA i : raw[i].raises # "text" /\ ExtractText(raw[i]) # <<>>)

\* C29: normalization gives one item for every raw item that text can be
\* taken from, in the order of the raw items, with that text, which is not
\* empty and has no blank at either end; every other raw item is dropped.
C29_NormalizationKeepsItemsWithText ==
    [][(stage = "collected" /\ stage' = "normalized")
          => LET kept == KeptPlaces(items)
             IN  /\ Len(items') = Len(kept)
                 /\ \A j \in 1..Len(items') :
                       /\ items'[j].text = ExtractText(items[kept[j]])
                       /\ items'[j].text # <<>>
                       /\ Head(items'[j].text) # " "
                       /\ items'[j].text[Len(items'[j].text)] # " "
                       /\ items'[j].role
                             = ItemToPlainDict(items[kept[j]]).role
      ]_vars

\* Of three raw items the blank string in the middle was dropped, the other
\* two are out in their order.
C29_Witness ==
    /\ stage = "normalized"
    /\ ctx.attached.val = <<DictItem("agent", <<"c">>, NoContent, NoTs),
                            StrItem(<<" ">>),
                            DictItem("user", <<" ", "b", " ">>, NoContent, 2)>>
    /\ items = <<[role |-> "agent", text |-> <<"c">>, ts |-> Now],
                 [role |-> "user", text |-> <<"b">>, ts |-> 2]>>

\* The places where a run of one role begins.
RunStarts(its) ==
    SelectSeq([i \in 1..Len(its) |-> i],
              LAMBDA i : i = 1 \/ its[i].role # its[i - 1].role)

\* The place where the k-th run ends.
RunEnd(its, k) ==
    IF k < Len(RunStarts(its)) THEN RunStarts(its)[k + 1] - 1 ELSE Len(its)

\* The texts of the places from..to, one blank between two of them.
RunText(its, from, to) == Join([i \in 1..(to - from + 1) |-> its[from + i - 1].text])

\* C30: merging normalized items gives one item for every maximal run of one
\* role, in order, with the run's role, the run's texts joined by single
\* blanks and the timestamp of the run's last item; no two neighbours of the
\* result have the same role, and merging the result again changes nothing.
C30_MergeCollapsesRuns ==
    [][/\ (stage = "normalized" /\ stage' = "merged")
            => LET starts == RunStarts(items)
               IN  /\ Len(items') = Len(starts)
                   /\ \A k \in 1..Len(starts) :
                         /\ items'[k].role = items[starts[k]].role
                         /\ items'[k].text
                               = RunText(items, starts[k], RunEnd(items, k))
                         /\ items'[k].ts = items[RunEnd(items, k)].ts
                   /\ \A k \in 1..(Len(items') - 1) :
                         items'[k].role # items'[k + 1].role
       /\ (stage = "merged" /\ stage' = "merged_again") => items' = items
      ]_vars

\* user "a", user " b ", agent "c" were merged to user "a b", agent "c", and
\* merged once more.
C30_Witness ==
    /\ stage = "merged_again"
    /\ ctx.attached.val = <<DictItem("user", <<"a">>, NoContent, 1),
                            DictItem("user", <<" ", "b", " ">>, NoContent, 2),
                            DictItem("agent", <<"c">>, NoContent, NoTs)>>
    /\ items = <<[role |-> "user", text |-> <<"a", " ", "b">>, ts |-> 2],
                 [role |-> "agent", text |-> <<"c">>, ts |-> Now]>>

\* The lines of a block: the texts between its line breaks.
RECURSIVE SplitLines(_)
SplitLines(block) ==
    IF block = <<>> THEN <<>>
    ELSE IF \E i \in 1..Len(block) : block[i] = "\n"
    THEN LET i == CHOOSE i \in 1..Len(block) :
                     /\ block[i] = "\n"
                     /\ \A j \in (i + 1)..Len(block) : block[j] # "\n"
         IN  Append(SplitLines(SubSeq(block, 1, i - 1)),
                    SubSeq(block, i + 1, Len(block)))
    ELSE <<block>>

\* The label the spec gives a role.
RoleLabel(role) ==
    CASE role = "user" -> "User"
      [] role \in {"assistant", "agent"} -> "Agent"
      [] role = "unknown" -> "Unknown"
      [] role = "SIP" -> "Sip"

\* C31: the text block has exactly one line per merged item, in order, the
\* k-th line being the k-th item's role label, a colon, a blank and the
\* item's text; the lines are joined by line breaks and none follows the
\* last.
C31_OneLinePerMergedItem ==
    stage = "rendered"
        => /\ SplitLines(transcript_text)
                = [k \in 1..Len(items) |->
                      <<RoleLabel(items[k].role), ":", " ">> \o items[k].text]
           /\ transcript_text # <<>>
                => transcript_text[Len(transcript_text)] # "\n"

\* ---- the agent job ----
\* The history export holds a user message with text in its text or content
\* field, under either key the transcript aggregator reads an export by.
HistoryHasUserText ==
    \E k \in 1..Len(FromHistory(job.history).items) :
        LET m == FromHistory(job.history).items[k]
        IN  m.role = "user" /\ FieldText(ItemToPlainDict(m)) # <<>>

\* C32: with a report URL set, a session shorter than the minimum duration is
\* reported (once) if its history holds a user message with text, and is not
\* reported if it holds none.
C32_MinimumActivityGate ==
    (job.url /\ job.duration < min_duration /\ job.report # "pending"
        /\ job.history.shape = "dict"
        /\ \A k \in 1..Len(job.history.val) :
              job.history.val[k].kind = "dict"
              /\ job.history.val[k].raises = "no")
        => IF HistoryHasUserText
           THEN job.report = "sent" /\ job.reports = 1
           ELSE job.report = "skipped" /\ job.reports = 0

\* C33: stop_recording never raises, and it returns true when there is no
\* active egress, when the stop request returns and when the service answers
\* that the egress is already complete; so two calls in a row, the second of
\* which finds the egress stopped, both return true.
C33_StopRecordingIdempotent ==
    \A i \in DOMAIN job.calls :
        LET call == job.calls[i]
        IN  /\ call.pc # "done" => call.result = "none"
            /\ call.pc = "done"
                  => /\ call.result \in {"true", "false"}
                     /\ call.answer \in {"no_egress", "returned", "complete"}
                           => call.result = "true"
                     /\ call.result = "false" => call.answer = "other"

\* The handler's call stopped the egress and returned true; the next call
\* found it stopped, asked the service all the same, and returned true.
C33_Witness ==
    /\ Len(job.calls) = 2
    /\ job.calls[1] = [origin |-> "close", pc |-> "done",
                       answer |-> "returned", result |-> "true"]
    /\ job.calls[2] = [origin |-> "shutdown", pc |-> "done",
                       answer |-> "complete", result |-> "true"]
    /\ job.stops = <<[by |-> 1, egress |-> "active"],
                     [by |-> 2, egress |-> "complete"]>>

\* C35: the background-task set holds exactly the stop_recording tasks that
\* the session-close and participant-disconnected handlers created and that
\* have not finished; it is empty once all of them have finished.
C35_BackgroundTasksTracked ==
    /\ job.background_tasks
          = {i \in DOMAIN job.calls :
                /\ job.calls[i].origin \in {"close", "disconnected"}
                /\ job.calls[i].pc # "done"}
    /\ (\A i \in DOMAIN job.calls : job.calls[i].pc = "done")
          => job.background_tasks = {}

\* Two tasks were created; the first has finished and left the set, the
\* second is waiting for the service and is in it.
C35_Witness ==
    /\ Len(job.calls) = 2
    /\ job.calls[1].origin = "close" /\ job.calls[1].pc = "done"
    /\ job.calls[2].origin = "disconnected"
    /\ job.calls[2].pc = "await_stop"
    /\ job.background_tasks = {2}

\* C36: when a handler's stop_recording has already stopped the recording,
\* the shutdown callback sends no further stop request to the egress service.
C36_NoDuplicateStopAtShutdown ==
    [][(/\ job.shutdown = "idle"
        /\ job'.shutdown # "idle"
        /\ \E i \in DOMAIN job.calls :
              /\ job.calls[i].origin \in {"close", "disconnected"}
              /\ job.calls[i].pc = "done"
              /\ job.calls[i].answer \in {"returned", "complete"})
          => job'.stops = job.stops
      ]_vars

\* ---- the tools ----
\* C34: the make_outbound_call, end_call and confirm_and_send_appointment
\* tools end every call with a mapping that has a status and a message, never
\* with an exception; a call of make_outbound_call that did not start a call
\* (no manager, invalid number, the manager raised) has status error and no
\* call id, and an end_call the manager answered with false has status error.
C34_ToolsReturnStructuredResults ==
    [][(sender'.pc = "done"
          /\ sender'.path \in {MakeCallTool, EndCallTool,
                               "confirm_and_send_appointment"})
          => /\ sender'.result.shape = "dict"
             /\ sender'.result.status \in {"ok", "success", "error"}
             /\ sender'.result.message # None
             /\ sender'.path = MakeCallTool
                   => IF sender.pc = "await_manager" /\ sender'.io = "returned"
                      THEN /\ sender'.result.status = "success"
                           /\ sender'.result.call_id # None
                      ELSE /\ sender'.result.status = "error"
                           /\ sender'.result.call_id = None
             /\ sender'.path = EndCallTool
                   => (sender'.result.status = "success"
                         <=> (sender.pc = "await_manager"
                                /\ sender'.io = "returned"
                                /\ sender'.result.message = "call_ended"))
      ]_vars

\* The manager raised (provisioning failed): the tool answered with an error
\* and no call id.
C34_Witness ==
    /\ sender.path = MakeCallTool
    /\ sender.pc = "done"
    /\ sender.io = "raised"
    /\ sender.result = [shape |-> "dict", status |-> "error",
                        message |-> "failed_to_initiate", call_id |-> None]

\* ---- the registry, once more ----
\* The create operations whose provisioning is pending, or has failed.
PendingCreates(ts) == {tk \in ts : tk.op \in CreateOps /\ tk.pc = "await_create"}

FailedCreates(ts) == {tk \in ts : tk.op \in CreateOps /\ tk.io = "raised"}

Notified(wh) == {p.rec : p \in BagToSet(wh)}

\* The parts of C37 that are about the record: a record whose provisioning
\* is pending or has failed is not in the active set and no notification was
\* sent for it, the step in which provisioning fails leaves the active set and
\* the notifications as they were, and a record that enters the active set has
\* status CONNECTED or RINGING.
StoredAfterProvisioning ==
    /\ \A tk \in PendingCreates(TaskSet) \cup FailedCreates(TaskSet) :
          tk.rec \notin ActiveRecs(active_calls) \cup Notified(webhooks)
    /\ \A tk \in PendingCreates(TaskSet) :
          (\E u \in FailedCreates(BagToSet(tasks')) : u.rec = tk.rec)
              => active_calls' = active_calls /\ webhooks' = webhooks
    /\ \A r \in ActiveRecs(active_calls') \ ActiveRecs(active_calls) :
          /\ heap'[r].status \in {CONNECTED, RINGING}
          /\ \E tk \in PendingCreates(TaskSet) : tk.rec = r

\* C37: while the provisioning of a call is pending its id is not in the
\* active set; a failed provisioning leaves the active set as it was and
\* sends no notification; a record enters the active set with status
\* CONNECTED or RINGING, never INITIATED or FAILED.
C37_StoredOnlyAfterProvisioning ==
    [][/\ StoredAfterProvisioning
       /\ \A tk \in PendingCreates(TaskSet) : ~Has(active_calls, tk.call_id)
      ]_vars

\* The notifications a step dispatches.
Dispatched == {p \in BagToSet(webhooks') :
                  CopiesIn(p, webhooks') > CopiesIn(p, webhooks)}

StartEvents == {"call_started", "call_initiated"}

\* C38: when a call_ended notification is dispatched for a call, that call's
\* start notification (call_started or call_initiated) was dispatched in an
\* earlier step, however the create operation, end_call and cleanup
\* interleave.
C38_StartBeforeEnd ==
    [][\A p \in Dispatched :
          p.event_type = "call_ended"
              => \E q \in BagToSet(webhooks) :
                    /\ q.rec = p.rec
                    /\ q.call_id = p.call_id
                    /\ q.event_type = StartEvent(q.direction)
      ]_vars

\* call_ended was dispatched for a call whose create operation still awaits
\* the POST of its start notification.
C38_Witness ==
    \E tk \in TaskSet, p \in BagToSet(webhooks) :
        /\ tk.op \in CreateOps
        /\ tk.pc = "await_webhook"
        /\ p.rec = tk.rec
        /\ p.event_type = "call_ended"

\* What shows that update_call_status ran for the call of the suspended
\* end_call y after y was called: during the removal await the participant id,
\* which y found set, is gone; during the POST the status, which y had set
\* to COMPLETED, is another, or the participant id went during the await
\* before.
UpdatedInFlight(y) ==
    /\ y.op = "end_call"
    /\ \/ y.pc = "await_remove" /\ heap[y.rec].sip_participant_id = None
       \/ /\ y.pc = "await_webhook"
          /\ \/ heap[y.rec].status # COMPLETED
             \/ y.io = "returned" /\ heap[y.rec].sip_participant_id = None

\* The suspended task y goes on and stands at x after the step.
GoesOn(y, x) ==
    /\ Left(y)
    /\ Resumed(x)
    /\ x.op = y.op
    /\ x.rec = y.rec
    /\ x.call_id = y.call_id

\* The step does to the end_call y, during whose awaits update_call_status
\* ran, what C39 says of it.
EndsAsWithoutUpdate(y, x) ==
    /\ x.pc = "done" => x.result = "true" /\ ~Has(active_calls', x.call_id)
    /\ \A p \in Dispatched :
          (p.event_type = "call_ended" /\ p.rec = x.rec) => p.status = COMPLETED

\* C39: an end_call for whose call update_call_status ran while it was
\* suspended (in the remove-participant call or in the POST) goes on to
\* dispatch call_ended with status completed, removes the call and returns
\* true; an update_call_status called after an end_call returned true does not
\* find that call's record.
C39_UpdateDuringEndCall ==
    [][/\ \A y \in BagToSet(tasks), x \in BagToSet(tasks') :
             (UpdatedInFlight(y) /\ GoesOn(y, x)) => EndsAsWithoutUpdate(y, x)
       /\ \A u \in BagToSet(tasks'), e \in BagToSet(tasks) :
             (/\ Called(u)
              /\ u.op = "update_call_status"
              /\ e.op = "end_call" /\ e.pc = "done" /\ e.result = "true")
                 => u.rec # e.rec
      ]_vars

\* The end_call invocations that have returned result for id: those called as
\* end_call, and those cleanup made.
RECURSIVE BagCount(_, _)
BagCount(B, S) ==
    IF S = {} THEN 0
    ELSE LET x == CHOOSE y \in S : TRUE
         IN  CopiesIn(x, B) + BagCount(B, S \ {x})

EndCallsOf(tk, id, result) ==
    IF tk.op = "end_call"
    THEN IF tk.pc = "done" /\ tk.call_id = id /\ tk.result = result
         THEN 1 ELSE 0
    ELSE IF tk.op = "cleanup"
    THEN Len(SelectSeq(tk.ended,
                       LAMBDA e : e.call_id = id /\ e.result = result))
    ELSE 0

RECURSIVE EndCallCount(_, _, _, _)
EndCallCount(B, S, id, result) ==
    IF S = {} THEN 0
    ELSE LET x == CHOOSE y \in S : TRUE
         IN  CopiesIn(x, B) * EndCallsOf(x, id, result)
                 + EndCallCount(B, S \ {x}, id, result)

Ended(B, id, result) == EndCallCount(B, BagToSet(B), id, result)

\* The times a call was stored under id.
StoredUnder(B, id) ==
    BagCount(B, {tk \in BagToSet(B) :
                    tk.op \in CreateOps /\ tk.io = "returned"
                        /\ tk.call_id = id})

\* The ids of the registry before a step and of the tasks after it.
AllIds == {tk.call_id : tk \in BagToSet(tasks')} \cup Keys(active_calls)

\* A step, and the end_call invocations that returned in it: one that
\* returned true removed the id from the active set, and no other key; those
\* that returned false removed nothing; a step in which none returned true
\* removed nothing.
RemovedByTrue ==
    \A id \in AllIds :
        LET trues == Ended(tasks', id, "true") - Ended(tasks, id, "true")
        IN  /\ trues \in {0, 1}
            /\ trues = 1 <=> (Has(active_calls, id) /\ ~Has(active_calls', id))

====
